---- MODULE Spec2Model ----
(***************************************************************************)
(* HWP / HWPX text extraction: hwp_parser.py (extract_text_from_hwp,       *)
(* extract_text_from_hwpx, convert_to_text) and hwp_utils.py               *)
(* (extract_text_from_hwp_ole, extract_text_from_hwpx_bytes).              *)
(*                                                                         *)
(* Conventions.  A byte is a number in 0..255 and a byte buffer a sequence *)
(* of bytes.  A character is its Unicode code point and a Python str a     *)
(* sequence of code points, so "hi" is <<104, 105>>.  Python offsets are   *)
(* 0-based, TLA+ sequences 1-based: data[offset] of the source is          *)
(* data[offset + 1] here.                                                  *)
(***************************************************************************)
EXTENDS Integers, Sequences, FiniteSets, TLC

VARIABLES
    doc,        \* the document the input was produced from (never read by the code)
    container,  \* the input as the code sees it: header stream, listing, stream bytes
    p_pc,       \* hwp_parser.extract_text_from_hwp: position
    p_compressed, \* its local `compressed`
    p_streams,  \* its local `section_streams`
    p_i,        \* number of section_streams entries the for loop has consumed
    p_parts,    \* its local `text_parts`
    p_walked,   \* history: what each section handed to _parse_body_records
    p_result,   \* its return value
    u_pc,       \* hwp_utils.extract_text_from_hwp_ole: position
    u_i,        \* number of listdir() entries the for loop has consumed
    u_raw,      \* its local `raw` (bytes of the stream being tried)
    u_stage,    \* position of the _iter_candidate_payloads generator
    u_texts,    \* its local `texts`
    u_tried,    \* history: every candidate handed to _parse_hwp_records
    u_result,   \* its return value, (text or None, status)
    archive,    \* the ZIP archive an archive reader is given: its entries in namelist() order
    x_pc,       \* hwp_parser.extract_text_from_hwpx: position
    x_i,        \* number of namelist() entries its for loop has consumed
    x_chunks,   \* its local `text_chunks`
    x_result,   \* its return value
    y_pc,       \* hwp_utils.extract_text_from_hwpx_bytes: position
    y_i,        \* number of namelist() entries its for loop has consumed
    y_texts,    \* its local `texts`
    y_result,   \* its return value, (text or None, status)
    d_file,     \* hwp_parser.convert_to_text: its arguments and what the file is
    d_pc,       \* its position
    d_is_hwpx,  \* its local `is_hwpx`
    d_route,    \* history: the reader it called
    d_text,     \* its local `text`
    d_fmt,      \* its local `fmt`
    d_result,   \* how it ended: the pair it returned, or the exception it raised
    d_effects,  \* history: what it did outside its return value
    call,       \* which entry point this run calls
    k_files,    \* app.extract_text_combo_2step: its argument `uploaded_files`
    k_pc,       \* its position
    k_i,        \* number of uploaded files its for loop has finished
    k_texts,    \* its local `combined_texts`
    k_logs,     \* its local `convert_logs`
    k_pdfs,     \* its local `generated_pdfs`
    k_result,   \* its return value
    cc_pc,      \* app.cloudconvert_convert_to_pdf: position
    cc_job,     \* the job the service created: when it finishes, what it exports
    cc_now,     \* time.time() - start, in ticks
    cc_export,  \* its local `export_files`
    cc_result,  \* its return value, (bytes or None, diagnostic)
    runs,       \* history: how the earlier calls on this same input ended
    f_arg,      \* a function called on its own: its arguments
    f_pc,       \* its position
    f_ret,      \* its return value
    secrets_key, \* app.py: st.secrets["GEMINI_API_KEY"], None when the name is absent
    session_key, \* app.py: st.session_state["GEMINI_API_KEY"]
    environ_key, \* app.py: os.environ["GEMINI_API_KEY"], None when unset
    g_pc,       \* app.py: what the script did last with the Gemini key
    g_key,      \* what the last call of _get_gemini_key returned
    w_data,     \* a record walker called on its own: its argument `data`
    w_written,  \* the records the buffer was written from (never read by the code)
    w_pc,       \* its position
    w_offset,   \* its local `offset`
    w_tops,     \* history: the offset at the top of each loop iteration
    w_emitted,  \* history: the records whose payload the loop took
    w_read_end  \* history: the largest end of any read of the buffer

p_vars == <<p_pc, p_compressed, p_streams, p_i, p_parts, p_walked, p_result>>
u_vars == <<u_pc, u_i, u_raw, u_stage, u_texts, u_tried, u_result>>
x_vars == <<x_pc, x_i, x_chunks, x_result>>
y_vars == <<y_pc, y_i, y_texts, y_result>>
d_vars == <<d_file, d_pc, d_is_hwpx, d_route, d_text, d_fmt, d_result, d_effects>>

k_vars == <<k_files, k_pc, k_i, k_texts, k_logs, k_pdfs, k_result>>
cc_vars == <<cc_pc, cc_job, cc_now, cc_export, cc_result>>

\* the state of the document readers, and the state of everything else
base_vars == <<call, doc, container, archive, p_vars, u_vars, x_vars, y_vars, d_vars>>
f_vars == <<f_arg, f_pc, f_ret>>
g_vars == <<secrets_key, session_key, environ_key, g_pc, g_key>>
w_vars == <<w_data, w_written, w_pc, w_offset, w_tops, w_emitted, w_read_end>>
later_vars == <<k_vars, cc_vars, runs, f_vars, g_vars, w_vars>>

\* what the actions of one component leave alone outside base_vars
not_combo == <<runs, f_vars, g_vars, w_vars>>
not_runs == <<k_vars, cc_vars, f_vars, g_vars, w_vars>>
not_f == <<k_vars, cc_vars, runs, g_vars, w_vars>>
not_g == <<k_vars, cc_vars, runs, f_vars, w_vars>>
not_w == <<k_vars, cc_vars, runs, f_vars, g_vars>>

vars == <<base_vars, later_vars>>

(***************************************************************************)
(* Sequences                                                               *)
(***************************************************************************)
Range(s) == {s[i] : i \in 1..Len(s)}

\* s[from:] of the source, `from` 0-based
Drop(s, from) == SubSeq(s, from + 1, Len(s))

\* sep.join(parts)
RECURSIVE Join(_, _)
Join(parts, sep) ==
    IF parts = <<>> THEN <<>>
    ELSE IF Len(parts) = 1 THEN parts[1]
    ELSE parts[1] \o sep \o Join(Tail(parts), sep)

\* str.startswith
StartsWith(s, prefix) ==
    Len(s) >= Len(prefix) /\ SubSeq(s, 1, Len(prefix)) = prefix

\* str.endswith
EndsWith(s, suffix) ==
    Len(s) >= Len(suffix) /\ SubSeq(s, Len(s) - Len(suffix) + 1, Len(s)) = suffix

\* `needle in s` for str
Contains(s, needle) ==
    \E i \in 0..(Len(s) - Len(needle)) : SubSeq(s, i + 1, i + Len(needle)) = needle

(***************************************************************************)
(* Characters: str.isspace, the str.splitlines boundaries, str.isprintable *)
(***************************************************************************)
\* str.isspace(): the code points Python treats as whitespace
IsSpace(c) ==
    \/ c \in 9..13
    \/ c \in 28..32
    \/ c \in {133, 160, 5760, 8232, 8233, 8239, 8287, 12288}
    \/ c \in 8192..8202

\* the line boundaries of str.splitlines()
IsLineBreak(c) == c \in {10, 11, 12, 13, 28, 29, 30, 133, 8232, 8233}

\* str.isprintable(): false for control, format, surrogate, private-use and
\* separator characters other than the ASCII space (exact on the Basic Latin,
\* Latin-1 and Hangul ranges the inputs use)
IsPrintable(c) ==
    /\ c >= 32
    /\ c \notin 127..160
    /\ c # 173
    /\ ~(IsSpace(c) /\ c # 32)
    /\ c \notin 8203..8207
    /\ c \notin 8234..8238
    /\ c \notin 8288..8303
    /\ c \notin 55296..63743
    /\ c \notin 65279..65535

Indices(s) == [i \in 1..Len(s) |-> i]

\* s.strip()
Strip(s) ==
    LET solid == {i \in 1..Len(s) : ~IsSpace(s[i])}
    IN  IF solid = {} THEN <<>>
        ELSE SubSeq(s, CHOOSE i \in solid : \A j \in solid : i <= j,
                       CHOOSE i \in solid : \A j \in solid : i >= j)

\* s.split(): the maximal runs of non-whitespace characters
SplitWords(s) ==
    LET first == SelectSeq(Indices(s),
                    LAMBDA i : ~IsSpace(s[i]) /\ (i = 1 \/ IsSpace(s[i - 1])))
        last == SelectSeq(Indices(s),
                    LAMBDA i : ~IsSpace(s[i]) /\ (i = Len(s) \/ IsSpace(s[i + 1])))
    IN  [k \in 1..Len(first) |-> SubSeq(s, first[k], last[k])]

\* s.splitlines(): a line ends at a line boundary, "\r\n" is one boundary, and
\* there is no empty line after a final boundary
SplitLines(s) ==
    LET n == Len(s)
        crlf(i) == s[i] = 13 /\ i < n /\ s[i + 1] = 10
        \* the last character of each boundary
        ends == SelectSeq(Indices(s), LAMBDA i : IsLineBreak(s[i]) /\ ~crlf(i))
        \* the first character of the boundary that ends at i
        begin(i) == IF s[i] = 10 /\ i > 1 /\ s[i - 1] = 13 THEN i - 1 ELSE i
        from(k) == IF k = 1 THEN 1 ELSE ends[k - 1] + 1
        closed == [k \in 1..Len(ends) |-> SubSeq(s, from(k), begin(ends[k]) - 1)]
    IN  IF from(Len(ends) + 1) <= n
        THEN Append(closed, SubSeq(s, from(Len(ends) + 1), n))
        ELSE closed

(***************************************************************************)
(* hwp_parser.py: the normalizer                                           *)
(***************************************************************************)
_strip_control_chars(text) ==
    LET kept == SelectSeq(text, LAMBDA ch : ch # 0)
    IN  [i \in 1..Len(kept) |->
            IF kept[i] \in {10, 9} THEN kept[i]
            ELSE IF kept[i] < 32 THEN 32
            ELSE kept[i]]

\* the normalizer with its two stages exchanged: lines compacted first,
\* control characters replaced afterwards
_clean_text_strip_last(text) ==
    LET lines == SplitLines(text)
        compacted == [i \in 1..Len(lines) |-> Join(SplitWords(lines[i]), <<32>>)]
        normalized_lines == SelectSeq(compacted, LAMBDA l : l # <<>>)
    IN  _strip_control_chars(Strip(Join(normalized_lines, <<10>>)))

_clean_text(text) ==
    LET filtered == _strip_control_chars(text)
        lines == SplitLines(filtered)
        compacted == [i \in 1..Len(lines) |-> Join(SplitWords(lines[i]), <<32>>)]
        normalized_lines == SelectSeq(compacted, LAMBDA l : l # <<>>)
    IN  Strip(Join(normalized_lines, <<10>>))

(***************************************************************************)
(* bytes.decode("utf-16le", errors="ignore")                               *)
(***************************************************************************)
\* A code unit is two bytes, low byte first; a trailing odd byte is ignored;
\* a high surrogate followed by a low surrogate is one character; a lone
\* surrogate is ignored.
Utf16Decode(b) ==
    LET n == Len(b) \div 2
        unit == [i \in 1..n |-> b[2 * i - 1] + 256 * b[2 * i]]
        high(i) == unit[i] \in 55296..56319
        low(i) == unit[i] \in 56320..57343
        paired(i) == high(i) /\ i < n /\ low(i + 1)
        starts == SelectSeq([i \in 1..n |-> i], LAMBDA i : paired(i) \/ ~(high(i) \/ low(i)))
    IN  [k \in 1..Len(starts) |->
            IF paired(starts[k])
            THEN 65536 + (unit[starts[k]] - 55296) * 1024 + (unit[starts[k] + 1] - 56320)
            ELSE unit[starts[k]]]

\* struct.unpack("<I", data[offset:offset+4]) exceeds 32-bit signed integers,
\* so the walkers here read the header's fields from its bytes:
\* header & 0x3FF is the low ten bits of bytes 0-1, (header >> 20) & 0xFFF the
\* high nibble of byte 2 and byte 3.
HeaderTag(data, offset) == (data[offset + 1] + 256 * data[offset + 2]) % 1024

HeaderSize(data, offset) == (data[offset + 3] \div 16) + 16 * data[offset + 4]

\* The extended size, a full 32-bit value, saturates at 2^24: every buffer here
\* is shorter than that, so `size <= 0` and `offset + size > length` decide as
\* they do on the exact value.
U32(data, offset) ==
    IF data[offset + 4] > 0 THEN 16777216
    ELSE data[offset + 1] + 256 * data[offset + 2] + 65536 * data[offset + 3]

(***************************************************************************)
(* hwp_parser.py: the record walker                                        *)
(***************************************************************************)
\* the while loop of _parse_body_records; returns text_chunks
RECURSIVE ParseBodyLoop(_, _, _)
ParseBodyLoop(data, offset, text_chunks) ==
    IF offset + 4 > Len(data) THEN text_chunks
    ELSE LET tag_id == HeaderTag(data, offset)
             size12 == HeaderSize(data, offset)
             extended == size12 = 4095
         IN  IF extended /\ offset + 8 > Len(data) THEN text_chunks
             ELSE LET size == IF extended THEN U32(data, offset + 4) ELSE size12
                      start == IF extended THEN offset + 8 ELSE offset + 4
                  IN  IF start + size > Len(data) \/ size < 0 THEN text_chunks
                      ELSE LET payload == SubSeq(data, start + 1, start + size)
                               cleaned == _clean_text(Utf16Decode(payload))
                           IN  ParseBodyLoop(data, start + size,
                                   IF tag_id = 67 /\ cleaned # <<>>
                                   THEN Append(text_chunks, cleaned)
                                   ELSE text_chunks)

_parse_body_records(data) == Join(ParseBodyLoop(data, 0, <<>>), <<10>>)

(***************************************************************************)
(* hwp_utils.py: the record walker                                         *)
(***************************************************************************)
\* the generator expression of lines 41-45
FilterPrintable(text) ==
    LET kept == SelectSeq(text, LAMBDA c : IsPrintable(c) \/ IsSpace(c))
    IN  [i \in 1..Len(kept) |-> IF kept[i] \in {13, 11} THEN 10 ELSE kept[i]]

\* the while loop of _parse_hwp_records; returns texts
RECURSIVE ParseHwpLoop(_, _, _)
ParseHwpLoop(data, offset, texts) ==
    IF offset + 4 > Len(data) THEN texts
    ELSE LET tag_id == HeaderTag(data, offset)
             size12 == HeaderSize(data, offset)
             extended == size12 = 4095
         IN  IF extended /\ offset + 8 > Len(data) THEN texts
             ELSE LET size == IF extended THEN U32(data, offset + 4) ELSE size12
                      start == IF extended THEN offset + 8 ELSE offset + 4
                  IN  IF size <= 0 \/ start + size > Len(data) THEN texts
                      ELSE LET payload == SubSeq(data, start + 1, start + size)
                               filtered == FilterPrintable(Utf16Decode(payload))
                           IN  ParseHwpLoop(data, start + size,
                                   IF tag_id \in {66, 67, 68, 80} /\ Strip(filtered) # <<>>
                                   THEN Append(texts, filtered)
                                   ELSE texts)

_parse_hwp_records(data) == Strip(Join(ParseHwpLoop(data, 0, <<>>), <<10>>))

(***************************************************************************)
(* zlib.decompress                                                         *)
(*                                                                         *)
(* Deflate is modelled for stored blocks (BTYPE = 00), which is what       *)
(* zlib writes at compression level 0: a block is the byte BFINAL + 2 *    *)
(* BTYPE, LEN and its complement NLEN (two bytes each, low byte first) and *)
(* LEN literal bytes.  A block of the reserved type (BTYPE = 11) is an     *)
(* error.  A Huffman-coded block (BTYPE = 01 or 10) is not decoded: the    *)
(* model reports the error zlib reports for every such buffer of the input *)
(* domain below (record streams whose first header byte happens to have    *)
(* those bits: "invalid distance too far back", "invalid code lengths      *)
(* set").  Bytes after the final block are ignored, as zlib.decompress     *)
(* ignores them.                                                           *)
(***************************************************************************)
InflateError == [ok |-> FALSE, out |-> <<>>, used |-> 0]

RECURSIVE InflateBlocks(_, _, _)
InflateBlocks(d, pos, out) ==
    IF pos + 5 > Len(d) THEN InflateError
    ELSE LET bfinal == d[pos + 1] % 2
             btype == (d[pos + 1] \div 2) % 4
             len == d[pos + 2] + 256 * d[pos + 3]
             nlen == d[pos + 4] + 256 * d[pos + 5]
         IN  IF btype # 0 THEN InflateError
             ELSE IF nlen # 65535 - len THEN InflateError
             ELSE IF pos + 5 + len > Len(d) THEN InflateError
             ELSE IF bfinal = 1
                  THEN [ok |-> TRUE, out |-> out \o SubSeq(d, pos + 6, pos + 5 + len),
                        used |-> pos + 5 + len]
                  ELSE InflateBlocks(d, pos + 5 + len, out \o SubSeq(d, pos + 6, pos + 5 + len))

\* zlib.decompress(data, -zlib.MAX_WBITS): raw deflate, no header, no checksum
InflateRaw(d) == InflateBlocks(d, 0, <<>>)

\* the sum of s[lo..hi]
RECURSIVE SumRange(_, _, _)
SumRange(s, lo, hi) ==
    IF lo > hi THEN 0
    ELSE IF lo = hi THEN s[lo]
    ELSE SumRange(s, lo, (lo + hi) \div 2) + SumRange(s, (lo + hi) \div 2 + 1, hi)

\* Adler-32: a = 1 + the sum of the bytes, b = the sum of the values a takes,
\* both mod 65521; the four bytes of b * 65536 + a, high byte first
Adler32Bytes(d) ==
    LET n == Len(d)
        a == (1 + SumRange(d, 1, n)) % 65521
        b == (n + SumRange([i \in 1..n |-> (n - i + 1) * d[i]], 1, n)) % 65521
    IN  <<b \div 256, b % 256, a \div 256, a % 256>>

\* zlib.decompress(data): two header bytes (method 8, window <= 32 KiB, no preset
\* dictionary, header check mod 31), the deflate stream, the Adler-32 of the output
InflateZlib(d) ==
    IF Len(d) < 2 THEN InflateError
    ELSE IF \/ d[1] % 16 # 8
            \/ d[1] \div 16 > 7
            \/ (256 * d[1] + d[2]) % 31 # 0
            \/ (d[2] \div 32) % 2 # 0
         THEN InflateError
    ELSE LET r == InflateBlocks(d, 2, <<>>)
         IN  IF ~r.ok THEN InflateError
             ELSE IF r.used + 4 > Len(d) THEN InflateError
             ELSE IF SubSeq(d, r.used + 1, r.used + 4) # Adler32Bytes(r.out) THEN InflateError
             ELSE r

\* hwp_parser.py
_maybe_decompress_raw(data) ==
    IF InflateRaw(data).ok THEN InflateRaw(data).out ELSE data

\* hwp_utils.py: the generator's three positions; position k yields a payload or
\* is skipped (its zlib call raised)
CandidateNames == <<"unchanged", "raw-deflate", "zlib">>

_iter_candidate_payloads(raw, k) ==
    IF k = 1 THEN [ok |-> TRUE, out |-> raw]
    ELSE IF k = 2 THEN [ok |-> InflateRaw(raw).ok, out |-> InflateRaw(raw).out]
    ELSE [ok |-> InflateZlib(raw).ok, out |-> InflateZlib(raw).out]

(***************************************************************************)
(* Names, int() and str() of integers                                      *)
(***************************************************************************)
S_FileHeader == <<70, 105, 108, 101, 72, 101, 97, 100, 101, 114>>   \* "FileHeader"
S_BodyText == <<66, 111, 100, 121, 84, 101, 120, 116>>              \* "BodyText"
S_Section == <<83, 101, 99, 116, 105, 111, 110>>                    \* "Section"
S_DocInfo == <<68, 111, 99, 73, 110, 102, 111>>                     \* "DocInfo"

IsDigit(c) == c \in 48..57

\* str(n) for an int
RECURSIVE DecStr(_)
DecStr(n) == IF n < 10 THEN <<48 + n>> ELSE Append(DecStr(n \div 10), 48 + (n % 10))

FormatInt(n) == IF n < 0 THEN <<45>> \o DecStr(0 - n) ELSE DecStr(n)

RECURSIVE DigitsValue(_, _)
DigitsValue(s, acc) ==
    IF s = <<>> THEN acc
    ELSE IF Head(s) = 95 THEN DigitsValue(Tail(s), acc)
    ELSE DigitsValue(Tail(s), 10 * acc + (Head(s) - 48))

\* int(s): surrounding whitespace, an optional sign, ASCII digits, single
\* underscores between digits; anything else raises ValueError (ok = FALSE)
ParseInt(s) ==
    LET t == Strip(s)
        signed == t # <<>> /\ t[1] \in {43, 45}
        body == IF signed THEN Tail(t) ELSE t
        wellFormed ==
            /\ body # <<>>
            /\ \A i \in 1..Len(body) : IsDigit(body[i]) \/ body[i] = 95
            /\ IsDigit(body[1]) /\ IsDigit(body[Len(body)])
            /\ \A i \in 1..(Len(body) - 1) : ~(body[i] = 95 /\ body[i + 1] = 95)
    IN  IF ~wellFormed THEN [ok |-> FALSE, val |-> 0]
        ELSE [ok |-> TRUE,
              val |-> IF signed /\ t[1] = 45 THEN 0 - DigitsValue(body, 0)
                      ELSE DigitsValue(body, 0)]

\* s.replace(old, new), old not empty
RECURSIVE Replace(_, _, _)
Replace(s, old, new) ==
    IF s = <<>> THEN <<>>
    ELSE IF StartsWith(s, old) THEN new \o Replace(Drop(s, Len(old)), old, new)
    ELSE <<Head(s)>> \o Replace(Tail(s), old, new)

\* s.split(sep) for a one-character sep
SplitOn(s, sep) ==
    LET at == SelectSeq(Indices(s), LAMBDA i : s[i] = sep)
        from(k) == IF k = 1 THEN 1 ELSE at[k - 1] + 1
        to(k) == IF k > Len(at) THEN Len(s) ELSE at[k] - 1
    IN  [k \in 1..(Len(at) + 1) |-> SubSeq(s, from(k), to(k))]

(***************************************************************************)
(* The compound container as olefile shows it                              *)
(***************************************************************************)
\* ole.listdir(): the paths of the streams, in the container's listing order
listdir(c) == [i \in 1..Len(c.entries) |-> c.entries[i].path]

\* ole.openstream(path).read(): OSError (ok = FALSE) for a path that names no
\* stream or a stream that cannot be read
openstream(c, path) ==
    LET hits == SelectSeq(c.entries, LAMBDA e : e.path = path)
    IN  IF hits = <<>> \/ ~hits[1].readable THEN [ok |-> FALSE, data |-> <<>>]
        ELSE [ok |-> TRUE, data |-> hits[1].data]

\* openstream("A/B"): olefile splits a str path at "/"
openstream_str(c, name) == openstream(c, SplitOn(name, 47))

(***************************************************************************)
(* hwp_parser.py: header flag and section enumeration                      *)
(***************************************************************************)
\* a test of the whole byte at offset 36 instead of its bit 0
_detect_body_compressed_any_bit(file_header) ==
    Len(file_header) >= 37 /\ file_header[37] # 0

_detect_body_compressed(file_header) ==
    Len(file_header) >= 37 /\ file_header[37] % 2 # 0

\* the for loop of _list_body_sections: section_ids in listing order
RECURSIVE SectionIds(_)
SectionIds(entries) ==
    IF entries = <<>> THEN <<>>
    ELSE LET entry == Head(entries)
             n == ParseInt(Replace(entry[2], S_Section, <<>>))
         IN  IF Len(entry) = 2 /\ entry[1] = S_BodyText /\ StartsWith(entry[2], S_Section) /\ n.ok
             THEN <<n.val>> \o SectionIds(Tail(entries))
             ELSE SectionIds(Tail(entries))

_list_body_sections(entries) ==
    LET section_ids == SortSeq(SectionIds(entries), LAMBDA a, b : a < b)
    IN  [i \in 1..Len(section_ids) |->
            S_BodyText \o <<47>> \o S_Section \o FormatInt(section_ids[i])]

(***************************************************************************)
(* The input domain: documents and the containers a producer writes for    *)
(* them.  A record is written as in the test fixture fake_hwp_bytes:       *)
(* header = tag | level << 10 | size << 20, then the UTF-16LE payload.     *)
(***************************************************************************)
MaxRecords == 2     \* records per body stream
MaxCut == 1         \* bytes missing at the end of a truncated body stream
MaxSections == 3    \* body streams per container

T_hello == <<104, 101, 108, 108, 111, 32, 119, 111, 114, 108, 100>>   \* "hello world"
T_gap == <<97, 32, 32, 98>>                                           \* "a  b"
T_hi == <<104, 105>>                                                  \* "hi"

TextTags == {66, 67, 68, 80}

RecordPool ==
    {[tag |-> t, level |-> 0, text |-> x] : t \in {67, 66}, x \in {T_hello, T_gap}}
        \cup {[tag |-> 16, level |-> 1, text |-> T_hello],
              [tag |-> 67, level |-> 0, text |-> <<>>]}

Encodings == {"plain", "deflate", "zlib"}
HeaderKinds == {"absent", "short", "clear", "set", "even", "odd"}
SectionNumbers == {0, 1, 2, 10}

\* str.encode("utf-16le") for characters of the Basic Multilingual Plane
Utf16Encode(text) ==
    [i \in 1..(2 * Len(text)) |->
        IF i % 2 = 1 THEN text[(i + 1) \div 2] % 256 ELSE text[i \div 2] \div 256]

\* struct.pack("<I", n)
U32Bytes(n) ==
    <<n % 256, (n \div 256) % 256, (n \div 65536) % 256, (n \div 16777216) % 256>>

EncodeRecord(r) ==
    U32Bytes(r.tag + 1024 * r.level + 1048576 * Len(Utf16Encode(r.text)))
        \o Utf16Encode(r.text)

RECURSIVE EncodeRecords(_)
EncodeRecords(rs) ==
    IF rs = <<>> THEN <<>> ELSE EncodeRecord(Head(rs)) \o EncodeRecords(Tail(rs))

\* the record stream of a section, its last `cut` bytes missing
PlainStream(sec) ==
    LET all == EncodeRecords(sec.records)
    IN  SubSeq(all, 1, IF sec.cut > Len(all) THEN 0 ELSE Len(all) - sec.cut)

\* one final stored block (what zlib writes at level 0)
DeflateStored(p) ==
    <<1, Len(p) % 256, Len(p) \div 256, (65535 - Len(p)) % 256, (65535 - Len(p)) \div 256>> \o p

ZlibStored(p) == <<120, 1>> \o DeflateStored(p) \o Adler32Bytes(p)

Compress(enc, p) ==
    IF enc = "deflate" THEN DeflateStored(p)
    ELSE IF enc = "zlib" THEN ZlibStored(p)
    ELSE p

\* the FileHeader stream: byte 36 carries the compression flag in bit 0
HeaderStream(kind) ==
    IF kind = "short" THEN [i \in 1..36 |-> 1]
    ELSE IF kind = "odd" THEN [i \in 1..37 |-> IF i = 37 THEN 3 ELSE 0]
    ELSE [i \in 1..40 |-> IF i # 37 THEN 0
                          ELSE IF kind = "set" THEN 1
                          ELSE IF kind = "even" THEN 2
                          ELSE 0]

BuildContainer(d) ==
    [entries |->
        (IF d.header = "absent" THEN <<>>
         ELSE <<[path |-> <<S_FileHeader>>, data |-> HeaderStream(d.header), readable |-> TRUE]>>)
        \o <<[path |-> <<S_DocInfo>>,
              data |-> EncodeRecord([tag |-> 67, level |-> 0, text |-> T_hi]),
              readable |-> TRUE]>>
        \o [i \in 1..Len(d.sections) |->
              [path |-> <<S_BodyText, d.sections[i].name>>,
               data |-> Compress(d.sections[i].enc, PlainStream(d.sections[i])),
               readable |-> TRUE]]]

SeqsUpTo(S, n) == UNION {[1..k -> S] : k \in 0..n}

\* one body stream, Section0, holding any stream of the pool's records
SingleSectionDocs ==
    {[header |-> h,
      sections |-> <<[name |-> S_Section \o <<48>>, records |-> rs, cut |-> c, enc |-> e]>>]
        : h \in HeaderKinds, rs \in SeqsUpTo(RecordPool, MaxRecords),
          c \in 0..MaxCut, e \in Encodings}

\* the text of the one record of SectionN in a document of several sections
SectionText(n) == <<115>> \o DecStr(n)   \* "s0", "s1", "s2", "s10"

\* several body streams, listed in any order
MultiSectionDocs ==
    {[header |-> h,
      sections |-> [i \in 1..Len(order) |->
          [name |-> S_Section \o DecStr(order[i]),
           records |-> <<[tag |-> 67, level |-> 0, text |-> SectionText(order[i])]>>,
           cut |-> 0, enc |-> e]]]
        : h \in HeaderKinds, e \in Encodings,
          order \in {o \in SeqsUpTo(SectionNumbers, MaxSections) :
                        Len(o) >= 2 /\ \A i, j \in 1..Len(o) : i # j => o[i] # o[j]}}

Docs == SingleSectionDocs \cup MultiSectionDocs

(***************************************************************************)
(* The run                                                                 *)
(***************************************************************************)
None == [none |-> TRUE, text |-> <<>>]
Some(text) == [none |-> FALSE, text |-> text]

StatusOk == "OK[OLE]"
StatusFailed == "OLE extraction failed"   \* the source's Korean literal of line 95

\* the locals of each function before it is called
ContainerRunStart ==
    /\ p_pc = "start" /\ p_compressed = FALSE /\ p_streams = <<>> /\ p_i = 0
    /\ p_parts = <<>> /\ p_walked = <<>> /\ p_result = <<>>
    /\ u_pc = "start" /\ u_i = 0 /\ u_raw = <<>> /\ u_stage = 0
    /\ u_texts = <<>> /\ u_tried = <<>> /\ u_result = <<None, "">>

ArchiveRunStart ==
    /\ x_pc = "start" /\ x_i = 0 /\ x_chunks = <<>> /\ x_result = <<>>
    /\ y_pc = "start" /\ y_i = 0 /\ y_texts = <<>> /\ y_result = <<None, "">>

DispatchStart ==
    /\ d_pc = "start" /\ d_is_hwpx = FALSE /\ d_route = "" /\ d_text = <<>>
    /\ d_fmt = "" /\ d_result = [raised |-> "", text |-> <<>>, fmt |-> ""]
    /\ d_effects = <<>>

ComboStart ==
    /\ k_pc = "start" /\ k_i = 0 /\ k_texts = <<>> /\ k_logs = <<>> /\ k_pdfs = <<>>
    /\ k_result = <<>>
    /\ cc_pc = "idle" /\ cc_job = [finish_at |-> 0, files |-> "empty"] /\ cc_now = 0
    /\ cc_export = "none" /\ cc_result = [bytes |-> "none", dbg |-> ""]

\* the functions of app.py and the scripts, not called by a run of the readers
NoCall == f_arg = <<>> /\ f_pc = "idle" /\ f_ret = <<>>

\* app.py lines 46-57: the session starts with GEMINI_API_KEY = None; no key
\* is configured anywhere and no key has been looked up
KeyIdle ==
    /\ secrets_key = None /\ session_key = None /\ environ_key = None
    /\ g_pc = "idle" /\ g_key = None

\* no record walker has been called on its own
WalkIdle ==
    /\ w_data = <<>> /\ w_written = [records |-> <<>>, cut |-> 0]
    /\ w_pc = "idle" /\ w_offset = 0 /\ w_tops = <<>> /\ w_emitted = <<>> /\ w_read_end = 0

OthersIdle == k_files = <<>> /\ ComboStart /\ runs = <<>> /\ NoCall /\ KeyIdle

LaterStart == OthersIdle /\ WalkIdle

NoDoc == [header |-> "absent", sections |-> <<>>]
NoArchive == [ok |-> FALSE, entries |-> <<>>]
NoFile == [filename |-> None, hint |-> "", ends_hwpx |-> FALSE, kind |-> "empty",
           head |-> <<>>, include_tables |-> FALSE, tables_md |-> <<>>]

Init ==
    /\ call \in {"hwp_parser", "hwp_utils"}
    /\ doc \in Docs
    /\ container = BuildContainer(doc)
    /\ archive = NoArchive
    /\ d_file = NoFile
    /\ ContainerRunStart /\ ArchiveRunStart /\ DispatchStart /\ LaterStart

(***************************************************************************)
(* hwp_parser.extract_text_from_hwp                                        *)
(***************************************************************************)
\* lines 118-123: the header flag; a missing FileHeader stream reads as b""
HeaderFlag(c) ==
    LET h == openstream_str(c, S_FileHeader)
    IN  _detect_body_compressed(IF h.ok THEN h.data ELSE <<>>)

\* lines 127-135, the loop body for one stream name: whether the stream opened,
\* which bytes went to the walker, what the walker returned, and the parts
\* (none or one) appended to text_parts
SectionWalk(c, compressed, stream_name) ==
    LET r == openstream_str(c, stream_name)
        stream_data == IF compressed THEN _maybe_decompress_raw(r.data) ELSE r.data
        parsed == _parse_body_records(stream_data)
    IN  [ok |-> r.ok,
         via |-> IF compressed /\ InflateRaw(r.data).ok THEN "raw-deflate" ELSE "unchanged",
         parsed |-> parsed,
         parts |-> IF r.ok /\ parsed # <<>>
                   THEN <<(<<91>> \o stream_name \o <<93, 10>> \o parsed)>>
                   ELSE <<>>]

\* the whole function, for a container c
RECURSIVE SectionParts(_, _, _)
SectionParts(c, compressed, names) ==
    IF names = <<>> THEN <<>>
    ELSE SectionWalk(c, compressed, Head(names)).parts
            \o SectionParts(c, compressed, Tail(names))

extract_text_from_hwp(c) ==
    _clean_text(Join(SectionParts(c, HeaderFlag(c), _list_body_sections(listdir(c))),
                     <<10, 10>>))

\* lines 117-124: open, read the header flag, enumerate the sections
P_Open ==
    /\ call = "hwp_parser" /\ p_pc = "start"
    /\ p_compressed' = HeaderFlag(container)
    /\ p_streams' = _list_body_sections(listdir(container))
    /\ p_pc' = "sections"
    /\ UNCHANGED <<later_vars, call, doc, container, archive, x_vars, y_vars, d_vars, p_i, p_parts, p_walked, p_result, u_vars>>

\* lines 126-135: one iteration of the for loop
P_Section ==
    /\ call = "hwp_parser" /\ p_pc = "sections" /\ p_i < Len(p_streams)
    /\ LET w == SectionWalk(container, p_compressed, p_streams[p_i + 1])
       IN  /\ p_parts' = p_parts \o w.parts
           /\ p_walked' = IF w.ok
                          THEN Append(p_walked, [stream |-> p_streams[p_i + 1],
                                                 via |-> w.via, parsed |-> w.parsed])
                          ELSE p_walked
    /\ p_i' = p_i + 1
    /\ UNCHANGED <<later_vars, call, doc, container, archive, x_vars, y_vars, d_vars, p_pc, p_compressed, p_streams, p_result, u_vars>>

\* line 137
P_Return ==
    /\ call = "hwp_parser" /\ p_pc = "sections" /\ p_i = Len(p_streams)
    /\ p_result' = _clean_text(Join(p_parts, <<10, 10>>))
    /\ p_pc' = "done"
    /\ UNCHANGED <<later_vars, call, doc, container, archive, x_vars, y_vars, d_vars, p_compressed, p_streams, p_i, p_parts, p_walked, u_vars>>

(***************************************************************************)
(* hwp_utils.extract_text_from_hwp_ole                                     *)
(***************************************************************************)
\* lines 83-87 as a whole: the texts (none or one) the candidate loop appends
\* for the bytes raw, starting at generator position k
RECURSIVE AcceptedFrom(_, _)
AcceptedFrom(raw, k) ==
    IF k > 3 THEN <<>>
    ELSE LET payload == _iter_candidate_payloads(raw, k)
             parsed == _parse_hwp_records(payload.out)
         IN  IF payload.ok /\ parsed # <<>> THEN <<parsed>> ELSE AcceptedFrom(raw, k + 1)

\* lines 76-87 as a whole: texts, for the entries from position i on
RECURSIVE OleTexts(_, _)
OleTexts(c, i) ==
    IF i > Len(c.entries) THEN <<>>
    ELSE LET path == c.entries[i].path
             r == openstream(c, path)
         IN  (IF path = <<>> \/ path[1] # S_BodyText \/ ~r.ok THEN <<>>
              ELSE AcceptedFrom(r.data, 1))
                \o OleTexts(c, i + 1)

\* a return that reports success whatever was merged
OleResult_always_ok(texts) == <<Some(Strip(Join(texts, <<10>>))), StatusOk>>

\* lines 94-95
OleResult(texts) ==
    LET merged == Strip(Join(texts, <<10>>))
    IN  IF merged # <<>> THEN <<Some(merged), StatusOk>> ELSE <<None, StatusFailed>>

\* the whole function, for a container c
extract_text_from_hwp_ole(c) == OleResult(OleTexts(c, 1))

\* lines 64-74: olefile imports and the buffer opens
U_Open ==
    /\ call = "hwp_utils" /\ u_pc = "start"
    /\ u_pc' = "streams"
    /\ UNCHANGED <<later_vars, call, doc, container, archive, x_vars, y_vars, d_vars, u_i, u_raw, u_stage, u_texts, u_tried, u_result, p_vars>>

\* lines 76-82: the next listdir() entry; a BodyText stream that can be read
\* starts the candidate loop
U_Stream ==
    /\ call = "hwp_utils" /\ u_pc = "streams" /\ u_i < Len(listdir(container))
    /\ LET path == listdir(container)[u_i + 1]
           r == openstream(container, path)
       IN  IF path = <<>> \/ path[1] # S_BodyText \/ ~r.ok
           THEN /\ u_i' = u_i + 1
                /\ UNCHANGED <<u_pc, u_raw, u_stage>>
           ELSE /\ u_raw' = r.data
                /\ u_stage' = 1
                /\ u_pc' = "candidates"
                /\ UNCHANGED u_i
    /\ UNCHANGED <<later_vars, call, doc, container, archive, x_vars, y_vars, d_vars, u_texts, u_tried, u_result, p_vars>>

\* lines 83-87: one position of the generator; a candidate whose parse gives
\* text is appended and ends the loop (break)
U_Candidate ==
    /\ call = "hwp_utils" /\ u_pc = "candidates"
    /\ LET payload == _iter_candidate_payloads(u_raw, u_stage)
           parsed == _parse_hwp_records(payload.out)
           accepted == payload.ok /\ parsed # <<>>
       IN  /\ u_tried' = IF payload.ok
                         THEN Append(u_tried, [stream |-> u_i + 1,
                                               candidate |-> CandidateNames[u_stage],
                                               parsed |-> parsed])
                         ELSE u_tried
           /\ u_texts' = IF accepted THEN Append(u_texts, parsed) ELSE u_texts
           /\ IF accepted \/ u_stage = 3
              THEN u_pc' = "streams" /\ u_i' = u_i + 1 /\ u_stage' = 0 /\ u_raw' = <<>>
              ELSE u_stage' = u_stage + 1 /\ UNCHANGED <<u_pc, u_i, u_raw>>
    /\ UNCHANGED <<later_vars, call, doc, container, archive, x_vars, y_vars, d_vars, u_result, p_vars>>

\* lines 88-95
U_Return ==
    /\ call = "hwp_utils" /\ u_pc = "streams" /\ u_i = Len(listdir(container))
    /\ u_result' = OleResult(u_texts)
    /\ u_pc' = "done"
    /\ UNCHANGED <<later_vars, call, doc, container, archive, x_vars, y_vars, d_vars, u_i, u_raw, u_stage, u_texts, u_tried, p_vars>>

\* hwp_utils.convert_hwp_local_to_text, applied to the result above
convert_hwp_local_to_text(res) ==
    IF ~res[1].none /\ res[1].text # <<>> THEN res ELSE <<None, res[2]>>

Next == P_Open \/ P_Section \/ P_Return \/ U_Open \/ U_Stream \/ U_Candidate \/ U_Return

Spec == Init /\ [][Next]_vars

(***************************************************************************)
(* What a caller of container extraction sees                              *)
(***************************************************************************)
Done == (call = "hwp_parser" /\ p_pc = "done") \/ (call = "hwp_utils" /\ u_pc = "done")

\* the text returned, "" when the function returned no text
Returned ==
    IF call = "hwp_parser" THEN p_result ELSE convert_hwp_local_to_text(u_result)[1].text

\* the same, computed for another container c
ReturnedFor(c) ==
    IF call = "hwp_parser" THEN extract_text_from_hwp(c)
    ELSE convert_hwp_local_to_text(extract_text_from_hwp_ole(c))[1].text

\* the bytes of the body stream behind an entry of p_walked or u_tried
WalkedRaw(stream_name) == openstream_str(container, stream_name).data
TriedRaw(k) == openstream(container, listdir(container)[k]).data

(***************************************************************************)
(* Claims about container extraction                                       *)
(***************************************************************************)
Sec == doc.sections[1]

\* C1: for a container with exactly one body stream holding exactly one
\* text-bearing record, container extraction returns the decoded, normalized
\* text of that record's payload, e.g. "hello world" for the payload
\* "hello world" (stated as the claim words it; the code violates it).
C1_SingleRecordText ==
    (/\ Done
     /\ doc \in SingleSectionDocs /\ Sec.cut = 0 /\ Len(Sec.records) = 1
     /\ Sec.records[1].tag \in TextTags /\ Sec.records[1].text # <<>>)
    => Returned = _clean_text(Sec.records[1].text)

\* the N of a stream name "BodyText/SectionN" and of a listing path
NameNumber(stream_name) == ParseInt(Drop(stream_name, Len(S_BodyText) + 1 + Len(S_Section))).val
PathNumber(path) == ParseInt(Drop(path[2], Len(S_Section))).val

\* C2: body streams reach the walker in ascending numeric order of N,
\* whatever order the container lists them in (the code of hwp_utils
\* violates it).
C2_NumericOrder ==
    /\ \A i, j \in 1..Len(p_walked) :
          i < j => NameNumber(p_walked[i].stream) <= NameNumber(p_walked[j].stream)
    /\ \A i, j \in 1..Len(u_tried) :
          i < j => PathNumber(listdir(container)[u_tried[i].stream])
                      <= PathNumber(listdir(container)[u_tried[j].stream])

\* the first attempt that succeeds in the order raw deflate, zlib, unchanged
FirstSuccess(raw) ==
    IF InflateRaw(raw).ok THEN "raw-deflate"
    ELSE IF InflateZlib(raw).ok THEN "zlib"
    ELSE "unchanged"

\* C3: the bytes handed to the record walker are those of the first attempt
\* that succeeds in the order raw deflate, zlib-wrapped deflate, unchanged;
\* the unchanged bytes are used only when both decompressions fail (the code
\* violates it).
C3_DecompressOrder ==
    /\ \A k \in 1..Len(p_walked) : p_walked[k].via = FirstSuccess(WalkedRaw(p_walked[k].stream))
    /\ \A k \in 1..Len(u_tried) : u_tried[k].candidate = FirstSuccess(TriedRaw(u_tried[k].stream))

\* the document d with every body stream stored as enc
Stored(d, enc) ==
    [d EXCEPT !.sections = [i \in 1..Len(d.sections) |-> [d.sections[i] EXCEPT !.enc = enc]]]

\* C4: the same logical record stream yields the same extracted text whether
\* the body stream is stored deflate-compressed, zlib-compressed or as
\* plaintext (the code of hwp_parser violates it).
C4_EncodingIndependent ==
    Done => Returned = ReturnedFor(BuildContainer(Stored(doc, "plain")))

\* C5: the compression flag never gates decompression: with the flag clear
\* and a raw-deflate stream, or the flag set and a plaintext or zlib-wrapped
\* stream, extraction still returns the stream's text, that of the same
\* document stored plain with the flag clear (the code of hwp_parser
\* violates it).
C5_FlagAdvisory ==
    (/\ Done
     /\ \/ doc.header = "clear" /\ Sec.enc = "deflate"
        \/ doc.header = "set" /\ Sec.enc \in {"plain", "zlib"})
    => Returned = ReturnedFor(BuildContainer([Stored(doc, "plain") EXCEPT !.header = "clear"]))

\* the number of records of sec that are whole in its (possibly cut) stream
Complete(sec) ==
    CHOOSE k \in 0..Len(sec.records) :
        /\ Len(EncodeRecords(SubSeq(sec.records, 1, k))) <= Len(PlainStream(sec))
        /\ \A m \in (k + 1)..Len(sec.records) :
              Len(EncodeRecords(SubSeq(sec.records, 1, m))) > Len(PlainStream(sec))

\* C6: for a body stream whose last record is truncated, extraction returns
\* text that contains the text of every text-bearing record before the
\* truncated one (the code violates it through the tag set of hwp_parser and
\* the zero-size stop of hwp_utils).
C6_TruncatedKeepsEarlier ==
    (/\ Done
     /\ doc \in SingleSectionDocs /\ Sec.enc = "plain"
     /\ Sec.cut > 0 /\ Complete(Sec) < Len(Sec.records))
    => \A i \in 1..Complete(Sec) :
          Sec.records[i].tag \in TextTags
            => Contains(_clean_text(Returned), _clean_text(Sec.records[i].text))

(***************************************************************************)
(* Claims about the candidate loop as an orchestrator of strategies: the    *)
(* strategies are the candidates of _iter_candidate_payloads, the           *)
(* verification predicate is "the walker returned text"                     *)
(***************************************************************************)
\* the diagnostics extract_text_from_hwp_ole hands back: the one status of
\* its return value, with the success it reports
DiagnosticTrail(res) == <<[ok |-> ~res[1].none, message |-> res[2]]>>

\* C9: the strategies run in their configured order with the predicate
\* applied after each; the text of the first strategy that satisfies it is
\* returned and no strategy runs after it; the diagnostic trail has one
\* entry per strategy tried, in order, every entry before the accepted one
\* marked failed (stated as the claim words it; the code keeps no trail).
C9_FirstVerifiedWithTrail ==
    (u_pc = "done" /\ doc \in SingleSectionDocs) =>
        LET trail == DiagnosticTrail(u_result)
            n == Len(u_tried)
        IN  /\ \A i, j \in 1..n :
                  i < j => \E a, b \in 1..Len(CandidateNames) :
                              /\ a < b
                              /\ CandidateNames[a] = u_tried[i].candidate
                              /\ CandidateNames[b] = u_tried[j].candidate
            /\ \A i \in 1..n : u_tried[i].parsed # <<>> => i = n /\ u_texts = <<u_tried[i].parsed>>
            /\ Len(trail) = n
            /\ \A i \in 1..Len(trail) : trail[i].ok <=> (i <= n /\ u_tried[i].parsed # <<>>)

\* C10: when no strategy's result satisfies the predicate the call ends
\* failed, never verified, and returns the full diagnostic trail: exactly
\* one entry for each configured strategy, in order (stated as the claim
\* words it; the code returns one status).
C10_ExhaustedWithFullTrail ==
    (u_pc = "done" /\ doc \in SingleSectionDocs /\ u_texts = <<>>) =>
        LET trail == DiagnosticTrail(u_result)
        IN  /\ u_result[1].none /\ u_result[2] = StatusFailed
            /\ Len(trail) = Len(CandidateNames)
            /\ \A i \in 1..Len(trail) : ~trail[i].ok

(***************************************************************************)
(* XML as xml.etree.ElementTree reads it, for documents made of start tags  *)
(* and end tags with ASCII letter names and of ASCII character data, after  *)
(* an optional XML declaration: no attributes, empty-element tags, entities *)
(* or comments.                                                            *)
(***************************************************************************)
Lower(s) == [i \in 1..Len(s) |-> IF s[i] \in 65..90 THEN s[i] + 32 ELSE s[i]]

IsLetter(c) == c \in 65..90 \/ c \in 97..122

\* the positions of "<" in s, ascending
TagStarts(s) == SelectSeq(Indices(s), LAMBDA i : s[i] = 60)

\* the position of the first ">" after position i, 0 when there is none
TagEnd(s, i) ==
    LET after == {j \in (i + 1)..Len(s) : s[j] = 62}
    IN  IF after = {} THEN 0 ELSE CHOOSE j \in after : \A m \in after : j <= m

\* the tags of s in order; lexical errors make ok false
XmlTags(s) ==
    LET lts == TagStarts(s)
        tag(k) == LET body == SubSeq(s, lts[k] + 1, TagEnd(s, lts[k]) - 1)
                      close == body # <<>> /\ body[1] = 47
                  IN  [from |-> lts[k], to |-> TagEnd(s, lts[k]), close |-> close,
                       name |-> IF close THEN Tail(body) ELSE body]
        tags == [k \in 1..Len(lts) |-> tag(k)]
    IN  [ok |-> \A k \in 1..Len(lts) :
                    /\ tags[k].to # 0
                    /\ k < Len(lts) => tags[k].to < lts[k + 1]
                    /\ tags[k].name # <<>>
                    /\ \A c \in Range(tags[k].name) : IsLetter(c),
         tags |-> tags]

\* every end tag closes the innermost open element, and only the last tag
\* closes the document element
RECURSIVE XmlBalanced(_, _, _)
XmlBalanced(tags, k, stack) ==
    IF k > Len(tags) THEN stack = <<>>
    ELSE IF ~tags[k].close
         THEN (k = 1 \/ stack # <<>>) /\ XmlBalanced(tags, k + 1, <<tags[k].name>> \o stack)
         ELSE stack # <<>> /\ Head(stack) = tags[k].name /\ XmlBalanced(tags, k + 1, Tail(stack))

\* ElementTree.fromstring(xml_data) and "".join(root.itertext()): ok is false
\* where fromstring raises ParseError
ElementTreeText(s) ==
    LET x == XmlTags(s)
        n == Len(x.tags)
        blank(t) == \A c \in Range(t) : IsSpace(c)
        ok == /\ x.ok /\ n >= 2
              /\ XmlBalanced(x.tags, 1, <<>>)
              /\ blank(SubSeq(s, 1, x.tags[1].from - 1))
              /\ blank(SubSeq(s, x.tags[n].to + 1, Len(s)))
    IN  [ok |-> ok,
         text |-> IF ok
                  THEN Join([k \in 1..(n - 1) |->
                                SubSeq(s, x.tags[k].to + 1, x.tags[k + 1].from - 1)], <<>>)
                  ELSE <<>>]

\* the XML declaration at the start of s, read as far as its encoding
\* pseudo-attribute: <?xml version="1.0" encoding="NAME"?>
XmlDeclaration(s) ==
    LET ends == {i \in 1..(Len(s) - 1) : s[i] = 63 /\ s[i + 1] = 62}
        end == CHOOSE i \in ends : \A j \in ends : i <= j
        present == StartsWith(s, <<60, 63, 120, 109, 108, 32>>) /\ ends # {}   \* "<?xml "
        key == <<101, 110, 99, 111, 100, 105, 110, 103, 61, 34>>               \* 'encoding="'
        keys == {i \in 1..end : SubSeq(s, i, i + Len(key) - 1) = key}
        from == (CHOOSE i \in keys : \A j \in keys : i <= j) + Len(key)
        quotes == {i \in from..end : s[i] = 34}
        to == CHOOSE i \in quotes : \A j \in quotes : i <= j
    IN  IF ~present THEN [encoding |-> <<>>, rest |-> s]
        ELSE [encoding |-> IF keys = {} \/ quotes = {} THEN <<>> ELSE SubSeq(s, from, to - 1),
              rest |-> Drop(s, end + 1)]

\* what fromstring makes of the parse of the document proper
TreeResult(tree) ==
    [raised |-> IF tree.ok THEN "" ELSE "ParseError", text |-> tree.text]

\* the parse of `rest` in the declared encoding `enc` (lowercased)
ParseAs(enc, rest) ==
    IF enc = <<>> \/ enc = <<117, 116, 102, 45, 56>>     \* "utf-8"
    THEN TreeResult(ElementTreeText(rest))
    ELSE IF enc = <<101, 117, 99, 45, 107, 114>>        \* "euc-kr"
    THEN [raised |-> "ValueError", text |-> <<>>]
    ELSE [raised |-> "LookupError", text |-> <<>>]

ParseDeclared(d) == ParseAs(Lower(d.encoding), d.rest)

\* ElementTree.fromstring(xml_data) for data that declares no encoding, utf-8,
\* a multi-byte encoding (euc-kr) or a name that is no codec's: the parser
\* asks Python for a declared encoding it does not know itself, and what
\* that raises is not a ParseError
fromstring(s) == ParseDeclared(XmlDeclaration(s))

\* re.sub(r'<[^>]+>', ' ', xml): each "<", one or more characters other than
\* ">", then ">", leftmost first, becomes one space
RECURSIVE StripTags(_, _)
StripTags(s, pos) ==
    LET starts == {i \in pos..Len(s) : s[i] = 60 /\ i < Len(s) /\ s[i + 1] # 62
                                        /\ TagEnd(s, i) # 0}
    IN  IF starts = {} THEN SubSeq(s, pos, Len(s))
        ELSE LET i == CHOOSE m \in starts : \A o \in starts : m <= o
             IN  SubSeq(s, pos, i - 1) \o <<32>> \o StripTags(s, TagEnd(s, i) + 1)

(***************************************************************************)
(* The archive readers                                                     *)
(***************************************************************************)
S_dot_xml == <<46, 120, 109, 108>>   \* ".xml"

\* lines 238-243: what the loop body does with the outcome of fromstring;
\* only ParseError is caught
EntryResult(root) ==
    IF root.raised = "ParseError" THEN [raised |-> "", chunks |-> <<>>]
    ELSE IF root.raised # "" THEN [raised |-> root.raised, chunks |-> <<>>]
    ELSE [raised |-> "", chunks |-> <<root.text>>]

\* hwp_parser.py lines 229-243, the loop body for one entry: the exception
\* that leaves it ("" when none does) and the chunks (none or one) it appends
\* to text_chunks
ReadEntry(entry) ==
    IF ~EndsWith(entry.name, S_dot_xml) THEN [raised |-> "", chunks |-> <<>>]
    ELSE EntryResult(fromstring(entry.data))

HwpxChunks(entry) == ReadEntry(entry).chunks

HwpxRaises(entry) == ReadEntry(entry).raised

\* hwp_utils.py lines 112-129, the loop body for one entry: the texts (none or
\* one) appended to texts; the bytes are ASCII, which utf-8 decodes unchanged
HwpxTexts(entry) ==
    IF ~EndsWith(Lower(entry.name), S_dot_xml) THEN <<>>
    ELSE LET cleaned == Join(SplitWords(StripTags(entry.data, 1)), <<32>>)
         IN  IF cleaned # <<>> THEN <<cleaned>> ELSE <<>>

\* lines 228-243, the for loop from entry i on, text_chunks being `chunks`: it
\* ends with the first entry that raises
RECURSIVE ReadEntries(_, _, _)
AfterEntry(entries, i, chunks, r) ==
    IF r.raised # "" THEN [raised |-> r.raised, chunks |-> chunks]
    ELSE ReadEntries(entries, i + 1, chunks \o r.chunks)

ReadEntries(entries, i, chunks) ==
    IF i > Len(entries) THEN [raised |-> "", chunks |-> chunks]
    ELSE AfterEntry(entries, i, chunks, ReadEntry(entries[i]))

\* line 245, unless the loop raised
HwpxResult(r) ==
    IF r.raised # "" THEN [raised |-> r.raised, text |-> <<>>]
    ELSE [raised |-> "", text |-> _clean_text(Join(r.chunks, <<10>>))]

\* hwp_parser.extract_text_from_hwpx as a whole: zipfile.BadZipFile is not
\* caught, and neither is what the first entry that raises raised
extract_text_from_hwpx(a) ==
    IF ~a.ok THEN [raised |-> "BadZipFile", text |-> <<>>]
    ELSE HwpxResult(ReadEntries(a.entries, 1, <<>>))

StatusOkHwpx == "OK[HWPX]"
StatusEmptyHwpx == "HWPX result empty"   \* the source's Korean literal of line 131
StatusBadZip == "HWPX ZIP not recognized"   \* the source's Korean literal of line 134

\* hwp_parser.py line 227
X_Open ==
    /\ call = "hwpx_parser" /\ x_pc = "start"
    /\ x_pc' = IF archive.ok THEN "entries" ELSE "raised"
    /\ UNCHANGED <<later_vars, call, doc, container, archive, p_vars, u_vars, y_vars, d_vars,
                   x_i, x_chunks, x_result>>

\* what one iteration does to the locals, r being what the loop body did
X_Read(r) ==
    IF r.raised # ""
    THEN x_pc' = "raised" /\ UNCHANGED <<x_chunks, x_i>>
    ELSE /\ x_chunks' = x_chunks \o r.chunks
         /\ x_i' = x_i + 1
         /\ UNCHANGED x_pc

\* lines 228-243: one iteration of the for loop
X_Entry ==
    /\ call = "hwpx_parser" /\ x_pc = "entries" /\ x_i < Len(archive.entries)
    /\ X_Read(ReadEntry(archive.entries[x_i + 1]))
    /\ UNCHANGED <<later_vars, call, doc, container, archive, p_vars, u_vars, y_vars, d_vars,
                   x_result>>

\* line 245
X_Return ==
    /\ call = "hwpx_parser" /\ x_pc = "entries" /\ x_i = Len(archive.entries)
    /\ x_result' = _clean_text(Join(x_chunks, <<10>>))
    /\ x_pc' = "done"
    /\ UNCHANGED <<later_vars, call, doc, container, archive, p_vars, u_vars, y_vars, d_vars,
                   x_i, x_chunks>>

\* hwp_utils.py lines 110 and 133-134
Y_Open ==
    /\ call = "hwpx_utils" /\ y_pc = "start"
    /\ IF archive.ok THEN y_pc' = "entries" /\ UNCHANGED y_result
       ELSE y_pc' = "done" /\ y_result' = <<None, StatusBadZip>>
    /\ UNCHANGED <<later_vars, call, doc, container, archive, p_vars, u_vars, x_vars, d_vars,
                   y_i, y_texts>>

\* lines 111-129: one iteration of the for loop
Y_Entry ==
    /\ call = "hwpx_utils" /\ y_pc = "entries" /\ y_i < Len(archive.entries)
    /\ y_texts' = y_texts \o HwpxTexts(archive.entries[y_i + 1])
    /\ y_i' = y_i + 1
    /\ UNCHANGED <<later_vars, call, doc, container, archive, p_vars, u_vars, x_vars, d_vars,
                   y_pc, y_result>>

\* lines 130-132
Y_Return ==
    /\ call = "hwpx_utils" /\ y_pc = "entries" /\ y_i = Len(archive.entries)
    /\ y_result' = IF y_texts = <<>> THEN <<None, StatusEmptyHwpx>>
                   ELSE <<Some(Join(y_texts, <<10>>)), StatusOkHwpx>>
    /\ y_pc' = "done"
    /\ UNCHANGED <<later_vars, call, doc, container, archive, p_vars, u_vars, x_vars, d_vars,
                   y_i, y_texts>>

(***************************************************************************)
(* The archives the readers are run on                                     *)
(***************************************************************************)
MaxEntries == 2     \* entries per archive

N_content_xml == <<99, 111, 110, 116, 101, 110, 116, 46, 120, 109, 108>>   \* "content.xml"
N_upper == <<98, 46, 88, 77, 76>>   \* "b.XML"
N_text == <<99, 46, 116, 120, 116>>   \* "c.txt"
N_second == <<100, 46, 120, 109, 108>>   \* "d.xml"

X_wrapped == <<60, 114, 62, 60, 112, 62, 104, 101, 108, 108, 111, 60, 47, 112, 62, 60, 112, 62, 119, 111, 114, 108, 100, 60, 47, 112, 62, 60, 47, 114, 62>>
    \* "<r><p>hello</p><p>world</p></r>"
X_single == <<60, 112, 62, 65, 60, 47, 112, 62>>   \* "<p>A</p>"
X_two_roots == <<60, 112, 62, 104, 101, 108, 108, 111, 60, 47, 112, 62, 60, 112, 62, 119, 111, 114, 108, 100, 60, 47, 112, 62>>
    \* "<p>hello</p><p>world</p>"
X_unclosed == <<60, 112, 62, 98, 97, 100>>   \* "<p>bad"
X_no_markup == <<112, 108, 97, 105, 110>>   \* "plain"
X_declared == <<60, 63, 120, 109, 108, 32, 118, 101, 114, 115, 105, 111, 110, 61, 34, 49, 46, 48, 34, 32, 101, 110, 99, 111, 100, 105, 110, 103, 61, 34, 85, 84, 70, 45, 56, 34, 63, 62, 60, 112, 62, 65, 60, 47, 112, 62>>
    \* '<?xml version="1.0" encoding="UTF-8"?><p>A</p>'
X_no_codec == <<60, 63, 120, 109, 108, 32, 118, 101, 114, 115, 105, 111, 110, 61, 34, 49, 46, 48, 34, 32, 101, 110, 99, 111, 100, 105, 110, 103, 61, 34, 102, 111, 111, 34, 63, 62, 60, 112, 62, 65, 60, 47, 112, 62>>
    \* '<?xml version="1.0" encoding="foo"?><p>A</p>'

W_hello == <<104, 101, 108, 108, 111>>
W_world == <<119, 111, 114, 108, 100>>
W_A == <<65>>
W_bad == <<98, 97, 100>>
W_plain == <<112, 108, 97, 105, 110>>

EntryNames == {N_content_xml, N_upper, N_text, N_second}
EntryData ==
    {X_wrapped, X_single, X_two_roots, X_unclosed, X_no_markup, X_declared, X_no_codec}
Words == {W_hello, W_world, W_A, W_bad, W_plain}

Archives ==
    {[ok |-> TRUE, entries |-> es] :
        es \in {e \in SeqsUpTo([name : EntryNames, data : EntryData], MaxEntries) :
                    \A i, j \in 1..Len(e) : i # j => e[i].name # e[j].name}}
        \cup {NoArchive}

InitArchive ==
    /\ call \in {"hwpx_parser", "hwpx_utils"}
    /\ archive \in Archives
    /\ doc = NoDoc
    /\ container = BuildContainer(NoDoc)
    /\ d_file = NoFile
    /\ ContainerRunStart /\ ArchiveRunStart /\ DispatchStart /\ LaterStart

NextArchive == X_Open \/ X_Entry \/ X_Return \/ Y_Open \/ Y_Entry \/ Y_Return

SpecArchive == InitArchive /\ [][NextArchive]_vars

(***************************************************************************)
(* Claims about the archive readers                                        *)
(***************************************************************************)
ArchiveDone ==
    (call = "hwpx_parser" /\ x_pc = "done") \/ (call = "hwpx_utils" /\ y_pc = "done")

\* the text returned, "" when the function returned no text
ArchiveText == IF call = "hwpx_parser" THEN x_result ELSE y_result[1].text

\* an entry whose name ends in ".xml" and whose content is well-formed XML
GoodEntry(e) == EndsWith(e.name, S_dot_xml) /\ fromstring(e.data).raised = ""

\* a occurs in text, and b occurs after it
Before(text, a, b) ==
    \E i \in 1..Len(text) :
        Contains(SubSeq(text, 1, i), a) /\ Contains(SubSeq(text, i + 1, Len(text)), b)

\* C7: a .xml entry that is not well-formed is skipped without failing the
\* call; the output contains the text of every well-formed .xml entry and
\* nothing from a malformed entry or from an entry not ending in .xml; a
\* content.xml of <p>hello</p><p>world</p> gives "hello" before "world"
\* (stated as the claim words it; the code violates it).
C7_MalformedSkipped ==
    /\ archive.ok => x_pc # "raised"
    /\ (ArchiveDone /\ archive.ok) =>
        /\ \A i \in 1..Len(archive.entries) : \A w \in Words :
              (GoodEntry(archive.entries[i]) /\ Contains(archive.entries[i].data, w))
                 => Contains(ArchiveText, w)
        /\ \A w \in Words :
              Contains(ArchiveText, w)
                 => \E i \in 1..Len(archive.entries) :
                       GoodEntry(archive.entries[i]) /\ Contains(archive.entries[i].data, w)
        /\ archive.entries = <<[name |-> N_content_xml, data |-> X_two_roots]>>
              => Before(ArchiveText, W_hello, W_world)

(***************************************************************************)
(* hwp_parser.convert_to_text                                              *)
(***************************************************************************)
S_hwpx == <<104, 119, 112, 120>>   \* "hwpx"
S_PK == <<80, 75>>   \* b"PK"
S_table_separator == <<10, 10, 45, 45, 45, 10, 10>>   \* "\n\n---\n\n"

\* data[:n]
Prefix(data, n) == SubSeq(data, 1, IF Len(data) < n THEN Len(data) ELSE n)

\* the rule with the signature consulted only when no filename is given
IsHwpx_filename_first(filename, head) ==
    LET name == Lower(IF filename.none THEN <<>> ELSE filename.text)
    IN  EndsWith(name, S_hwpx) \/ (name = <<>> /\ Prefix(head, 2) = S_PK)

\* lines 252-253
IsHwpx(filename, head) ==
    LET name == Lower(IF filename.none THEN <<>> ELSE filename.text)
    IN  EndsWith(name, S_hwpx) \/ Prefix(head, 2) = S_PK

D_Detect ==
    /\ call = "convert_to_text" /\ d_pc = "start"
    /\ d_is_hwpx' = IsHwpx(d_file.filename, d_file.head)
    /\ d_pc' = "extract"
    /\ UNCHANGED <<later_vars, call, doc, container, archive, p_vars, u_vars, x_vars, y_vars,
                   d_file, d_route, d_text, d_fmt, d_result, d_effects>>

\* lines 255-260: the reader called; what a reader raises is not caught
\* (zipfile.BadZipFile, or the OSError of olefile.OleFileIO on bytes that
\* are no OLE container)
D_Extract ==
    /\ call = "convert_to_text" /\ d_pc = "extract"
    /\ d_route' = IF d_is_hwpx THEN "archive" ELSE "container"
    /\ IF d_is_hwpx
       THEN LET r == extract_text_from_hwpx(archive)
            IN  IF r.raised # ""
                THEN /\ d_result' = [raised |-> r.raised, text |-> <<>>, fmt |-> ""]
                     /\ d_pc' = "raised"
                     /\ UNCHANGED <<d_text, d_fmt>>
                ELSE /\ d_text' = r.text /\ d_fmt' = "HWPX" /\ d_pc' = "tables"
                     /\ UNCHANGED d_result
       ELSE IF d_file.kind # "ole"
            THEN /\ d_result' = [raised |-> "OSError", text |-> <<>>, fmt |-> ""]
                 /\ d_pc' = "raised"
                 /\ UNCHANGED <<d_text, d_fmt>>
            ELSE /\ d_text' = extract_text_from_hwp(container) /\ d_fmt' = "HWP"
                 /\ d_pc' = "tables"
                 /\ UNCHANGED d_result
    /\ UNCHANGED <<later_vars, call, doc, container, archive, p_vars, u_vars, x_vars, y_vars,
                   d_file, d_is_hwpx, d_effects>>

\* lines 188-220, _extract_tables_markdown_from_hwp_bytes: what a call does
\* outside its return value.  Without the hwp5-table-extractor script it
\* returns at once; with it, it writes the data to a temporary file, makes a
\* second one for the output, runs the script as a process and removes both.
TableEffects(cli) ==
    IF cli THEN <<"create file", "create file", "start process", "remove file", "remove file">>
    ELSE <<>>

\* lines 262-266: the tables of a container file, when asked for;
\* d_file.tables_md is what _extract_tables_markdown_from_hwp_bytes returns,
\* which is "" when the script is not installed
D_Tables ==
    /\ call = "convert_to_text" /\ d_pc = "tables"
    /\ IF d_file.include_tables /\ d_fmt = "HWP"
       THEN \E cli \in BOOLEAN :
               /\ d_file.tables_md # <<>> => cli
               /\ d_effects' = d_effects \o TableEffects(cli)
       ELSE UNCHANGED d_effects
    /\ d_text' = IF d_file.include_tables /\ d_fmt = "HWP" /\ d_file.tables_md # <<>>
                 THEN Strip(d_text \o (IF d_text # <<>> THEN S_table_separator ELSE <<>>)
                                   \o d_file.tables_md)
                 ELSE d_text
    /\ d_pc' = "return"
    /\ UNCHANGED <<later_vars, call, doc, container, archive, p_vars, u_vars, x_vars, y_vars,
                   d_file, d_is_hwpx, d_route, d_fmt, d_result>>

\* lines 268-271
D_Return ==
    /\ call = "convert_to_text" /\ d_pc = "return"
    /\ IF d_text = <<>>
       THEN d_result' = [raised |-> "ValueError", text |-> <<>>, fmt |-> ""] /\ d_pc' = "raised"
       ELSE d_result' = [raised |-> "", text |-> d_text, fmt |-> d_fmt] /\ d_pc' = "done"
    /\ UNCHANGED <<later_vars, call, doc, container, archive, p_vars, u_vars, x_vars, y_vars,
                   d_file, d_is_hwpx, d_route, d_text, d_fmt, d_effects>>

(***************************************************************************)
(* The files and filename hints the dispatcher is run on                   *)
(***************************************************************************)
F_hwp == <<97, 46, 104, 119, 112>>   \* "a.hwp"
F_hwpx == <<97, 46, 104, 119, 112, 120>>   \* "a.hwpx"
F_upper_hwpx == <<65, 46, 72, 87, 80, 88>>   \* "A.HWPX"
F_report == <<114, 101, 112, 111, 114, 116>>   \* "report"
F_no_dot == <<97, 104, 119, 112, 120>>   \* "ahwpx"
T_table == <<124, 32, 116, 32, 124>>   \* "| t |"

\* the filename argument; hint tells how a reader of the name takes it, and
\* ends_hwpx whether its letters end in "hwpx" in any case
Filenames ==
    {[filename |-> None, hint |-> "absent", ends_hwpx |-> FALSE],
     [filename |-> Some(<<>>), hint |-> "absent", ends_hwpx |-> FALSE],
     [filename |-> Some(F_hwp), hint |-> "container", ends_hwpx |-> FALSE],
     [filename |-> Some(F_hwpx), hint |-> "archive", ends_hwpx |-> TRUE],
     [filename |-> Some(F_upper_hwpx), hint |-> "archive", ends_hwpx |-> TRUE],
     [filename |-> Some(F_report), hint |-> "ambiguous", ends_hwpx |-> FALSE],
     [filename |-> Some(F_no_dot), hint |-> "archive", ends_hwpx |-> TRUE]}

DispatchDocs ==
    {[header |-> h,
      sections |-> <<[name |-> S_Section \o <<48>>, records |-> rs, cut |-> 0, enc |-> e]>>]
        : h \in {"clear", "set"}, e \in {"plain", "deflate"},
          rs \in {<<>>, <<[tag |-> 67, level |-> 0, text |-> T_hello]>>}}

DispatchArchives ==
    {[ok |-> TRUE, entries |-> es] :
        es \in {<<[name |-> N_text, data |-> X_no_markup]>>,
                <<[name |-> N_content_xml, data |-> X_wrapped]>>,
                <<[name |-> N_content_xml, data |-> X_unclosed]>>,
                <<[name |-> N_content_xml, data |-> X_wrapped],
                  [name |-> N_second, data |-> X_no_codec]>>}}

\* what the data argument is: an OLE container, a ZIP archive, a ZIP archive
\* behind a stub (its first bytes are the stub's), bytes that start with
\* "PK" and are no archive, other bytes, one byte, no bytes
DataKinds ==
    {[kind |-> "ole", head |-> <<208, 207, 17, 224>>, d |-> d, a |-> NoArchive]
        : d \in DispatchDocs}
    \cup {[kind |-> "zip", head |-> <<80, 75, 3, 4>>, d |-> NoDoc, a |-> a]
        : a \in DispatchArchives}
    \cup {[kind |-> "stub_zip", head |-> <<77, 90, 144, 0>>, d |-> NoDoc, a |-> a]
        : a \in DispatchArchives}
    \cup {[kind |-> "pk_other", head |-> <<80, 75, 0, 0>>, d |-> NoDoc, a |-> NoArchive],
          [kind |-> "other", head |-> <<37, 80, 68, 70>>, d |-> NoDoc, a |-> NoArchive],
          [kind |-> "one_byte", head |-> <<80>>, d |-> NoDoc, a |-> NoArchive],
          [kind |-> "empty", head |-> <<>>, d |-> NoDoc, a |-> NoArchive]}

InitDispatch ==
    /\ call = "convert_to_text"
    /\ \E f \in Filenames, k \in DataKinds, t \in {<<FALSE, <<>>>>, <<TRUE, <<>>>>, <<TRUE, T_table>>} :
          /\ d_file = [filename |-> f.filename, hint |-> f.hint, ends_hwpx |-> f.ends_hwpx,
                       kind |-> k.kind, head |-> k.head,
                       include_tables |-> t[1], tables_md |-> t[2]]
          /\ doc = k.d
          /\ container = BuildContainer(k.d)
          /\ archive = k.a
    /\ ContainerRunStart /\ ArchiveRunStart /\ DispatchStart /\ LaterStart

NextDispatch == D_Detect \/ D_Extract \/ D_Tables \/ D_Return

SpecDispatch == InitDispatch /\ [][NextDispatch]_vars

(***************************************************************************)
(* Claims about the dispatcher                                             *)
(***************************************************************************)
\* the data argument starts with the two bytes "PK"
StartsWithPK == d_file.kind \in {"zip", "pk_other"}

\* the format tag of a returned pair names the reader that was called
TagNamesRoute ==
    (d_pc = "done" /\ d_result.raised = "")
        => /\ d_result.fmt = "HWPX" <=> d_route = "archive"
           /\ d_result.fmt = "HWP" <=> d_route = "container"

TimeoutSec == 4    \* timeout_sec, the wait for the job (line 205: 180)
PollMax == 2       \* the longest a status request takes (line 247: timeout=15)
DownloadMax == 1   \* the longest the download takes (line 268: timeout=90)
SleepSec == 2      \* time.sleep(2), lines 257 and 259
MaxFiles == 2      \* the longest list of uploaded files

\* the longest a call can last, and a finishing time no call can see
CallMax == (TimeoutSec - 1) + PollMax + SleepSec + DownloadMax
Never == CallMax + 1

TEXT_EXTS ==
    {<<46, 116, 120, 116>>, <<46, 99, 115, 118>>, <<46, 109, 100>>, <<46, 108, 111, 103>>}
    \* ".txt", ".csv", ".md", ".log"
DIRECT_PDF_EXTS == {<<46, 112, 100, 102>>}   \* ".pdf"
BINARY_EXTS ==
    {<<46, 104, 119, 112>>, <<46, 104, 119, 112, 120>>, <<46, 100, 111, 99>>,
     <<46, 100, 111, 99, 120>>, <<46, 112, 112, 116>>, <<46, 112, 112, 116, 120>>,
     <<46, 120, 108, 115>>, <<46, 120, 108, 115, 120>>}
    \* ".hwp", ".hwpx", ".doc", ".docx", ".ppt", ".pptx", ".xls", ".xlsx"

\* os.path.splitext(name) for a name without directory separators: the
\* extension starts at the last dot that has a character other than a dot
\* before it
splitext(name) ==
    LET dots == {i \in 1..Len(name) : name[i] = 46 /\ \E j \in 1..(i - 1) : name[j] # 46}
        at == IF dots = {} THEN Len(name) + 1
              ELSE CHOOSE i \in dots : \A j \in dots : j <= i
    IN  <<SubSeq(name, 1, at - 1), SubSeq(name, at, Len(name))>>

\* [A-Za-z0-9_\-] of the two key patterns
IsKeyChar(c) == c \in 48..57 \/ c \in 65..90 \/ c \in 97..122 \/ c = 95 \/ c = 45

\* re.sub(prefix + "[A-Za-z0-9_\-]{20,}", repl, s): leftmost, greedy
RECURSIVE SubKey(_, _, _)
SubKey(s, prefix, repl) ==
    IF s = <<>> THEN <<>>
    ELSE LET rest == Drop(s, Len(prefix))
             stops == {i \in 1..Len(rest) : ~IsKeyChar(rest[i])}
             run == IF stops = {} THEN Len(rest)
                    ELSE (CHOOSE i \in stops : \A j \in stops : i <= j) - 1
         IN  IF StartsWith(s, prefix) /\ run >= 20
             THEN repl \o SubKey(Drop(rest, run), prefix, repl)
             ELSE <<Head(s)>> \o SubKey(Tail(s), prefix, repl)

\* the names of the third pattern, lower-cased (the pattern ignores case)
SecretNames ==
    {<<103, 112, 116, 95, 97, 112, 105, 95, 107, 101, 121>>,
     <<111, 112, 101, 110, 97, 105, 95, 97, 112, 105, 95, 107, 101, 121>>,
     <<103, 101, 109, 105, 110, 105, 95, 97, 112, 105, 95, 107, 101, 121>>,
     <<99, 108, 111, 117, 100, 99, 111, 110, 118, 101, 114, 116, 95, 97, 112, 105, 95, 107, 101, 121>>}
    \* "gpt_api_key", "openai_api_key", "gemini_api_key", "cloudconvert_api_key"

\* \w of the pattern's \b, for the characters of the inputs
IsWordChar(c) == c \in 48..57 \/ c \in 65..90 \/ c \in 97..122 \/ c = 95

\* number of leading \s characters of s
LeadingSpace(s) ==
    LET solid == {i \in 1..Len(s) : ~IsSpace(s[i])}
    IN  IF solid = {} THEN Len(s) ELSE (CHOOSE i \in solid : \A j \in solid : i <= j) - 1

\* the third re.sub of _redact_secrets: NAME \s* = \s* quote ... same quote
\* becomes NAME=quote[REDACTED]quote; `prev` is the character before s
RECURSIVE SubAssignment(_, _)
SubAssignment(s, prev) ==
    IF s = <<>> THEN <<>>
    ELSE LET names == {n \in SecretNames : StartsWith(Lower(s), n)}
             name == CHOOSE n \in names : TRUE
             a == Drop(s, Len(name))
             b == Drop(a, LeadingSpace(a))
             c == Drop(b, 1)
             d == Drop(c, LeadingSpace(c))
             closes == {i \in 2..Len(d) : d[i] = d[1]}
             close == CHOOSE i \in closes : \A j \in closes : i <= j
             matched == /\ prev = 0 \/ ~IsWordChar(prev)
                        /\ names # {}
                        /\ b # <<>> /\ b[1] = 61
                        /\ d # <<>> /\ d[1] \in {39, 34}
                        /\ closes # {}
                        /\ \A i \in 2..(close - 1) : d[i] # 10
         IN  IF matched
             THEN SubSeq(s, 1, Len(name)) \o <<61, d[1]>>
                  \o <<91, 82, 69, 68, 65, 67, 84, 69, 68, 93>> \o <<d[1]>>
                  \o SubAssignment(Drop(d, close), d[close])
             ELSE <<Head(s)>> \o SubAssignment(Tail(s), Head(s))

\* lines 62-72
_redact_secrets(text) ==
    SubAssignment(
        SubKey(SubKey(text, <<115, 107, 45>>,
                      <<91, 82, 69, 68, 65, 67, 84, 69, 68, 95, 75, 69, 89, 93>>),
               <<65, 73, 122, 97>>,
               <<91, 82, 69, 68, 65, 67, 84, 69, 68, 95, 71, 69, 77, 73, 78, 73, 95, 75, 69, 89, 93>>),
        0)

\* lines 776-783 for data that is ASCII apart from a UTF-8 byte order mark:
\* "utf-8-sig" decodes it and drops the mark
DecodeText(data) ==
    IF StartsWith(data, <<239, 187, 191>>) THEN Drop(data, 3) ELSE data

\* f"\n\n===== [{label}] =====\n{_redact_secrets(txt)}\n", lines 786, 793, 803
Section(label, txt) ==
    <<10, 10, 61, 61, 61, 61, 61, 32, 91>> \o label \o <<93, 32, 61, 61, 61, 61, 61, 10>>
    \o _redact_secrets(txt) \o <<10>>

\* " -> CloudConvert PDF" of line 803, its arrow the character U+2192
S_via_pdf ==
    <<32, 8594, 32, 67, 108, 111, 117, 100, 67, 111, 110, 118, 101, 114, 116, 32, 80, 68, 70>>

\* the diagnostics of cloudconvert_convert_to_pdf (ASCII stand-ins for the
\* source's literals of lines 208, 240, 242, 262, 267, 270, 272)
DbgNoKey == "CloudConvert key missing"
DbgNoJob == "CloudConvert job creation failed"
DbgJobException == "CloudConvert job creation exception"
DbgTimeout == "CloudConvert wait timeout/failure"
DbgNoUrl == "CloudConvert export URL missing"
DbgOk == "OK[CloudConvert]"
DbgDownload == "CloudConvert download failed"

\* what extract_text_from_pdf_bytes (lines 282-289) can return for a PDF: its
\* text, no text, or the message of a failed extraction
PdfTexts ==
    {T_hello, <<>>,
     <<91, 80, 68, 70, 32, 52628, 52636, 32, 49892, 54056, 93, 32, 80, 121, 80, 68, 70, 50,
       32, 48120, 49444, 52824>>}

\* the jobs the service can create: the tick at which the export task is
\* finished (Never: after the call has ended), and what the finished task lists
Jobs == [finish_at : 0..Never, files : {"empty", "no_url", "url"}]

\* ---- cloudconvert_convert_to_pdf ---------------------------------------
\* lines 206-245: the key, the job creation request, the start of the wait
CC_Create ==
    /\ cc_pc = "start"
    /\ \E key \in BOOLEAN, post \in {"ok", "no_id", "exception"}, job \in Jobs :
          IF ~key
          THEN /\ cc_result' = [bytes |-> "none", dbg |-> DbgNoKey]
               /\ cc_pc' = "returned"
               /\ UNCHANGED <<cc_job, cc_now, cc_export>>
          ELSE IF post # "ok"
          THEN /\ cc_result' = [bytes |-> "none",
                                dbg |-> IF post = "no_id" THEN DbgNoJob ELSE DbgJobException]
               /\ cc_pc' = "returned"
               /\ UNCHANGED <<cc_job, cc_now, cc_export>>
          ELSE /\ cc_job' = job /\ cc_now' = 0 /\ cc_export' = "none"
               /\ cc_pc' = "poll"
               /\ UNCHANGED cc_result
    /\ UNCHANGED <<base_vars, not_combo, k_vars>>

\* lines 246-259: the loop test and one iteration.  The request begun at
\* cc_now takes `d` ticks and the service answers it at some tick of that
\* interval; the answer lists the export task as finished when the job has
\* finished by then.  A failed request sleeps like an unfinished job.
CC_Poll ==
    /\ cc_pc = "poll"
    /\ IF ~(cc_now < TimeoutSec)
       THEN cc_pc' = "after" /\ UNCHANGED <<cc_now, cc_export>>
       ELSE \E d \in 0..PollMax, failed \in BOOLEAN :
            \E answered \in cc_now..(cc_now + d) :
               LET finished == ~failed /\ cc_job.finish_at <= answered
               IN  IF finished /\ cc_job.files # "empty"
                   THEN /\ cc_export' = cc_job.files
                        /\ cc_now' = cc_now + d
                        /\ cc_pc' = "after"
                   ELSE /\ cc_export' = IF finished THEN "empty" ELSE cc_export
                        /\ cc_now' = cc_now + d + SleepSec
                        /\ cc_pc' = "poll"
    /\ UNCHANGED <<base_vars, not_combo, k_vars, cc_job, cc_result>>

\* lines 261-272: the result of the wait, the download
CC_Finish ==
    /\ cc_pc = "after"
    /\ IF cc_export \in {"none", "empty"}
       THEN cc_result' = [bytes |-> "none", dbg |-> DbgTimeout] /\ UNCHANGED cc_now
       ELSE IF cc_export = "no_url"
       THEN cc_result' = [bytes |-> "none", dbg |-> DbgNoUrl] /\ UNCHANGED cc_now
       ELSE \E d \in 0..DownloadMax, got \in {"pdf", "empty", "exception"} :
               /\ cc_now' = cc_now + d
               /\ cc_result' = IF got = "exception"
                               THEN [bytes |-> "none", dbg |-> DbgDownload]
                               ELSE [bytes |-> got, dbg |-> DbgOk]
    /\ cc_pc' = "returned"
    /\ UNCHANGED <<base_vars, not_combo, k_vars, cc_job, cc_export>>

\* ---- extract_text_combo_2step ------------------------------------------
\* lines 766-767
K_Start ==
    /\ k_pc = "start"
    /\ k_pc' = "files"
    /\ UNCHANGED <<base_vars, not_combo, cc_vars, k_files, k_i, k_texts, k_logs, k_pdfs, k_result>>

\* lines 769-808 for one file, up to the call of the conversion service
K_File ==
    /\ k_pc = "files" /\ k_i < Len(k_files) /\ cc_pc = "idle"
    /\ LET f == k_files[k_i + 1]
           ext == Lower(splitext(f.name)[2])
       IN  IF ext \in TEXT_EXTS
           THEN /\ k_logs' = Append(k_logs, [mark |-> "text", name |-> f.name,
                                             dbg |-> "", chars |-> 0])
                /\ k_texts' = Append(k_texts, Section(f.name, DecodeText(f.data)))
                /\ k_i' = k_i + 1
                /\ UNCHANGED cc_pc
           ELSE IF ext \in DIRECT_PDF_EXTS
           THEN \E txt \in PdfTexts :
                /\ k_logs' = Append(k_logs, [mark |-> "ok", name |-> f.name,
                                             dbg |-> "", chars |-> Len(txt)])
                /\ k_texts' = Append(k_texts, Section(f.name, txt))
                /\ k_i' = k_i + 1
                /\ UNCHANGED cc_pc
           ELSE IF ext \in BINARY_EXTS
           THEN /\ cc_pc' = "start"
                /\ UNCHANGED <<k_logs, k_texts, k_i>>
           ELSE /\ k_logs' = Append(k_logs, [mark |-> "info", name |-> f.name,
                                             dbg |-> "", chars |-> 0])
                /\ k_i' = k_i + 1
                /\ UNCHANGED <<k_texts, cc_pc>>
    /\ UNCHANGED <<base_vars, not_combo, k_files, k_pc, k_pdfs, k_result,
                   cc_job, cc_now, cc_export, cc_result>>

\* the loop with `if pdf_bytes is not None:` in place of `if pdf_bytes:`: a
\* download that returned no bytes is kept as a generated PDF
K_Converted_any_bytes ==
    /\ k_pc = "files" /\ cc_pc = "returned"
    /\ LET f == k_files[k_i + 1]
       IN  IF cc_result.bytes # "none"
           THEN \E txt \in PdfTexts :
                /\ k_pdfs' = Append(k_pdfs, <<splitext(f.name)[1] \o <<46, 112, 100, 102>>,
                                              cc_result.bytes>>)
                /\ k_logs' = Append(k_logs, [mark |-> "ok", name |-> f.name,
                                             dbg |-> cc_result.dbg, chars |-> Len(txt)])
                /\ k_texts' = Append(k_texts, Section(f.name \o S_via_pdf, txt))
           ELSE /\ k_logs' = Append(k_logs, [mark |-> "stop", name |-> f.name,
                                             dbg |-> cc_result.dbg, chars |-> 0])
                /\ UNCHANGED <<k_pdfs, k_texts>>
    /\ k_i' = k_i + 1
    /\ cc_pc' = "idle"
    /\ UNCHANGED <<base_vars, not_combo, k_files, k_pc, k_result, cc_job, cc_now, cc_export, cc_result>>

\* lines 797-806: what the loop does with the pair the service client returned
K_Converted ==
    /\ k_pc = "files" /\ cc_pc = "returned"
    /\ LET f == k_files[k_i + 1]
       IN  IF cc_result.bytes = "pdf"
           THEN \E txt \in PdfTexts :
                /\ k_pdfs' = Append(k_pdfs, <<splitext(f.name)[1] \o <<46, 112, 100, 102>>,
                                              cc_result.bytes>>)
                /\ k_logs' = Append(k_logs, [mark |-> "ok", name |-> f.name,
                                             dbg |-> cc_result.dbg, chars |-> Len(txt)])
                /\ k_texts' = Append(k_texts, Section(f.name \o S_via_pdf, txt))
           ELSE /\ k_logs' = Append(k_logs, [mark |-> "stop", name |-> f.name,
                                             dbg |-> cc_result.dbg, chars |-> 0])
                /\ UNCHANGED <<k_pdfs, k_texts>>
    /\ k_i' = k_i + 1
    /\ cc_pc' = "idle"
    /\ UNCHANGED <<base_vars, not_combo, k_files, k_pc, k_result, cc_job, cc_now, cc_export, cc_result>>

\* line 810
K_Return ==
    /\ k_pc = "files" /\ k_i = Len(k_files) /\ cc_pc = "idle"
    /\ k_result' = <<Strip(Join(k_texts, <<10>>)), k_logs, k_pdfs>>
    /\ k_pc' = "done"
    /\ UNCHANGED <<base_vars, not_combo, cc_vars, k_files, k_i, k_texts, k_logs, k_pdfs>>

\* the uploaded files: names with each kind of extension, text with and
\* without secrets
UploadPool ==
    {[name |-> <<110, 111, 116, 101, 115, 46, 116, 120, 116>>, data |-> d] :    \* "notes.txt"
        d \in {T_hello,
               <<239, 187, 191>> \o T_hi,
               \* "key sk-abcdefghij0123456789 end"
               <<107, 101, 121, 32, 115, 107, 45, 97, 98, 99, 100, 101, 102, 103, 104, 105,
                 106, 48, 49, 50, 51, 52, 53, 54, 55, 56, 57, 32, 101, 110, 100>>,
               \* "OPENAI_API_KEY = 'abc' x"
               <<79, 80, 69, 78, 65, 73, 95, 65, 80, 73, 95, 75, 69, 89, 32, 61, 32, 39, 97,
                 98, 99, 39, 32, 120>>}}
    \cup {[name |-> n, data |-> <<>>] :
        n \in {<<115, 99, 97, 110, 46, 112, 100, 102>>,          \* "scan.pdf"
               <<112, 108, 97, 110, 46, 104, 119, 112>>,         \* "plan.hwp"
               <<80, 76, 65, 78, 46, 72, 87, 80, 88>>,           \* "PLAN.HWPX"
               <<100, 97, 116, 97, 46, 122, 105, 112>>,          \* "data.zip"
               <<82, 69, 65, 68, 77, 69>>}}                      \* "README"

DocumentsIdle ==
    /\ doc = NoDoc /\ container = BuildContainer(NoDoc) /\ archive = NoArchive
    /\ d_file = NoFile
    /\ ContainerRunStart /\ ArchiveRunStart /\ DispatchStart

ReadersIdle == DocumentsIdle /\ WalkIdle

BaseIdle == ReadersIdle /\ KeyIdle

InitCombo ==
    /\ call = "combo_2step"
    /\ k_files \in SeqsUpTo(UploadPool, MaxFiles)
    /\ ComboStart /\ runs = <<>> /\ NoCall
    /\ BaseIdle

NextCombo == K_Start \/ K_File \/ K_Converted \/ K_Return \/ CC_Create \/ CC_Poll \/ CC_Finish

SpecCombo == InitCombo /\ [][NextCombo]_vars

(***************************************************************************)
(* Claims about the conversion service client                              *)
(***************************************************************************)
\* the client has returned from a call in which the job was created
ClientReturned == cc_pc = "returned" /\ cc_result.dbg \notin {DbgNoKey, DbgNoJob, DbgJobException}

\* C11: the client never waits without end; when the conversion job has not
\* finished by the time timeout_sec has elapsed, the client returns no bytes
\* and a diagnostic, so that a result which becomes available after the
\* time-out is never used.
C11_AsClaimed ==
    /\ cc_now <= CallMax
    /\ (ClientReturned /\ cc_job.finish_at > TimeoutSec)
          => (cc_result.bytes \in {"none", "empty"} /\ cc_result.dbg # "")

(***************************************************************************)
(* Calling an extractor again on the input of a finished call              *)
(***************************************************************************)
MaxCalls == 2   \* calls made on one input

\* a list that is kept from one call to the next
KeptTexts(left) == left

\* hwp_utils line 74, `texts: list[str] = []`: the list a call starts with,
\* whatever list the call before it ended with
NewTexts(left) == <<>>

\* convert_to_text called again with the same data, filename and
\* include_tables: the call's names are bound anew (lines 248-253)
D_Again ==
    /\ call = "convert_to_text" /\ d_pc \in {"done", "raised"}
    /\ Len(runs) < MaxCalls - 1
    /\ runs' = Append(runs, d_result)
    /\ d_pc' = "start" /\ d_is_hwpx' = FALSE /\ d_route' = "" /\ d_text' = <<>>
    /\ d_fmt' = "" /\ d_result' = [raised |-> "", text |-> <<>>, fmt |-> ""]
    /\ UNCHANGED <<not_runs, call, doc, container, archive, p_vars, u_vars, x_vars, y_vars,
                   d_file, d_effects>>

\* extract_text_from_hwp_ole called again with the same data (lines 63-74)
U_Again ==
    /\ call = "hwp_utils" /\ u_pc = "done"
    /\ Len(runs) < MaxCalls - 1
    /\ runs' = Append(runs, u_result)
    /\ u_pc' = "start" /\ u_i' = 0 /\ u_raw' = <<>> /\ u_stage' = 0
    /\ u_texts' = NewTexts(u_texts) /\ u_tried' = <<>> /\ u_result' = <<None, "">>
    /\ UNCHANGED <<not_runs, call, doc, container, archive, p_vars, x_vars, y_vars, d_vars>>

InitTwice == InitDispatch \/ (Init /\ call = "hwp_utils")

NextTwice ==
    \/ D_Detect \/ D_Extract \/ D_Tables \/ D_Return \/ D_Again
    \/ U_Open \/ U_Stream \/ U_Candidate \/ U_Return \/ U_Again

SpecTwice == InitTwice /\ [][NextTwice]_vars

Opens == IF d_is_hwpx THEN archive.ok ELSE d_file.kind = "ole"

\* C13: for data that opens as a container or as an archive, extraction
\* does not raise on imperfect content (a missing FileHeader, a failed
\* decompression, a malformed XML entry); it raises only when the format
\* cannot be opened or when no text at all is produced.
C13_RaisesOnlyUnopenedOrEmpty ==
    (call = "convert_to_text" /\ d_pc = "raised") =>
        \/ ~Opens
        \/ d_result.raised = "ValueError" /\ d_text = <<>>

\* C14: an extraction that yields no text is surfaced as a failure, never as
\* a success with empty text: convert_to_text raises ValueError instead of
\* returning, and convert_hwp_local_to_text returns no text with a status
\* other than 'OK[OLE]'; its status is 'OK[OLE]' exactly when it returns
\* text, and that text is not empty.
C14_EmptyIsFailure ==
    /\ (call = "convert_to_text" /\ d_pc = "done")
          => (d_text # <<>> /\ d_result.text = d_text /\ d_result.raised = "")
    /\ (call = "convert_to_text" /\ d_pc = "raised")
          => (d_result.text = <<>> /\ (d_result.raised = "ValueError" <=> d_fmt # ""))
    /\ (call = "convert_to_text" /\ d_pc = "raised" /\ d_result.raised = "ValueError")
          => d_text = <<>>
    /\ (call = "hwp_utils" /\ u_pc = "done")
          => LET r == convert_hwp_local_to_text(u_result)
                 nothing == \A i \in 1..Len(u_tried) : u_tried[i].parsed = <<>>
             IN  /\ nothing => (r[1].none /\ r[2] # StatusOk)
                 /\ r[2] = StatusOk <=> ~r[1].none
                 /\ ~r[1].none => r[1].text # <<>>

\* the bytes of a body stream and their decompression were walked and neither
\* gave text: the caller is handed no text and the failure status
C14_Witness ==
    /\ call = "hwp_utils" /\ u_pc = "done"
    /\ Len(u_tried) >= 2 /\ \A i \in 1..Len(u_tried) : u_tried[i].parsed = <<>>
    /\ convert_hwp_local_to_text(u_result) = <<None, StatusFailed>>

(***************************************************************************)
(* Claims about the record walkers                                         *)
(***************************************************************************)
\* C15: a record contributes text exactly when its tag is one of 66, 67, 68
\* and 80: in a body stream of one whole record, stored plain, a record with
\* one of these tags and a printable payload that is not empty has its text
\* in the output, and a record with any other tag leaves the output empty.
C15_TextTagsContribute ==
    (/\ Done
     /\ doc \in SingleSectionDocs /\ Sec.enc = "plain" /\ Sec.cut = 0
     /\ Len(Sec.records) = 1)
    => IF Sec.records[1].tag \in TextTags /\ Sec.records[1].text # <<>>
       THEN Contains(_clean_text(Returned), _clean_text(Sec.records[1].text))
       ELSE Returned = <<>>

(***************************************************************************)
(* hwp_parser._clean_text called on its own                                *)
(***************************************************************************)
MaxText == 3   \* characters of the argument

\* the characters of the arguments: NUL, tab, newline, carriage return,
\* escape, space, "a", delete, the C1 controls U+0080 and U+0085 (next
\* line), the no-break space and the line separator U+2028
TextChars == {0, 9, 10, 13, 27, 32, 97, 127, 128, 133, 160, 8232}

\* the control characters (Unicode category Cc)
IsControl(c) == c \in 0..31 \/ c \in 127..159

CleanText ==
    /\ call = "_clean_text" /\ f_pc = "start"
    /\ f_ret' = _clean_text(f_arg)
    /\ f_pc' = "done"
    /\ UNCHANGED <<base_vars, not_f, f_arg>>

InitClean ==
    /\ call = "_clean_text"
    /\ f_arg \in SeqsUpTo(TextChars, MaxText)
    /\ f_pc = "start" /\ f_ret = <<>>
    /\ k_files = <<>> /\ ComboStart /\ runs = <<>>
    /\ BaseIdle

NextClean == CleanText

SpecClean == InitClean /\ [][NextClean]_vars

\* the lines of the output, as its newlines separate them
OutputLines == SplitOn(f_ret, 10)

\* C16: the output of _clean_text holds no NUL and no control character other
\* than newline, no two spaces in a row, no line that is empty or only
\* whitespace, and no whitespace at its start or end.
C16_AsClaimed ==
    (call = "_clean_text" /\ f_pc = "done") =>
        /\ \A i \in 1..Len(f_ret) : f_ret[i] # 0 /\ (IsControl(f_ret[i]) => f_ret[i] = 10)
        /\ \A i \in 1..(Len(f_ret) - 1) : ~(f_ret[i] = 32 /\ f_ret[i + 1] = 32)
        /\ f_ret # <<>> => \A k \in 1..Len(OutputLines) :
                              \E i \in 1..Len(OutputLines[k]) : ~IsSpace(OutputLines[k][i])
        /\ f_ret # <<>> => (~IsSpace(f_ret[1]) /\ ~IsSpace(f_ret[Len(f_ret)]))

(***************************************************************************)
(* Claims about what a call does besides returning                         *)
(***************************************************************************)
\* C17: a call of convert_to_text with its default arguments (tables
\* included) only reads its input and changes nothing outside its return
\* value: it creates no file and starts no process.
C17_NoSideEffects ==
    (call = "convert_to_text" /\ d_file.include_tables) => d_effects = <<>>

(***************************************************************************)
(* hwp_utils.collect_text_statistics and scripts/hwp_inspector.main        *)
(***************************************************************************)
MaxKeywords == 3   \* keywords given to one call

\* a selection without the test `kw and`
KeywordsWhere_any(keywords, normalized, present) ==
    SelectSeq(keywords, LAMBDA kw : Contains(normalized, kw) = present)

\* [kw for kw in keywords if kw and (kw in normalized) == present],
\* lines 152-153
RECURSIVE KeywordsWhere(_, _, _)
KeywordsWhere(keywords, normalized, present) ==
    IF keywords = <<>> THEN <<>>
    ELSE LET kw == Head(keywords)
             rest == KeywordsWhere(Tail(keywords), normalized, present)
         IN  IF kw # <<>> /\ Contains(normalized, kw) = present THEN <<kw>> \o rest ELSE rest

\* lines 143-161; text is None or a string, keywords None or a sequence
collect_text_statistics(text, keywords) ==
    LET kws == IF keywords.none THEN <<>> ELSE keywords.list
        normalized == Strip(IF text.none THEN <<>> ELSE text.text)
        korean_chars == Cardinality({i \in 1..Len(normalized) :
                                        normalized[i] >= 44032 /\ normalized[i] <= 55203})
    IN  [length |-> Len(normalized),
         korean_characters |-> korean_chars,
         contains_korean |-> korean_chars # 0,
         found_keywords |-> KeywordsWhere(kws, normalized, TRUE),
         missing_keywords |-> KeywordsWhere(kws, normalized, FALSE)]

StatsCall ==
    /\ call = "collect_text_statistics" /\ f_pc = "start"
    /\ f_ret' = collect_text_statistics(f_arg.text, f_arg.keywords)
    /\ f_pc' = "done"
    /\ UNCHANGED <<base_vars, not_f, f_arg>>

\* the keywords: none, "hello", "xyz" and a Hangul word
KeywordPool == {<<>>, W_hello, <<120, 121, 122>>, <<44228, 50557>>}

\* the texts: None, "", "  hello world \n" and a text with Hangul
StatsTexts ==
    {None, Some(<<>>),
     Some(<<32, 32, 104, 101, 108, 108, 111, 32, 119, 111, 114, 108, 100, 32, 10>>),
     Some(<<44228, 50557, 32, 104, 101, 108, 108, 111>>)}

InitStats ==
    /\ call = "collect_text_statistics"
    /\ f_arg \in [text : StatsTexts,
                  keywords : {[none |-> TRUE, list |-> <<>>]}
                      \cup {[none |-> FALSE, list |-> l] : l \in SeqsUpTo(KeywordPool, MaxKeywords)}]
    /\ f_pc = "start" /\ f_ret = <<>>
    /\ k_files = <<>> /\ ComboStart /\ runs = <<>>
    /\ BaseIdle

NextStats == StatsCall

SpecStats == InitStats /\ [][NextStats]_vars

\* ---- scripts/hwp_inspector.main ----------------------------------------
\* line 11
DEFAULT_KEYWORDS ==
    <<<<44228, 50557>>, <<48264, 54840>>, <<49828, 53224, 45367>>,
      <<52628, 51221, 44552, 50529>>, <<51060, 51473, 54868>>,
      <<65, 103, 103, 114, 101, 103, 97, 116, 105, 111, 110>>>>

StatusOpenFailed == "OLE open failed"   \* the source's Korean literal of hwp_utils line 72

\* an exit status that ignores --fail-missing
ExitCode_always_strict(fail_missing, missing_keywords) ==
    IF missing_keywords # <<>> THEN 2 ELSE 0

\* lines 76-79
ExitCode(fail_missing, missing_keywords) ==
    IF fail_missing /\ missing_keywords # <<>> THEN 2 ELSE 0

\* what convert_hwp_local_to_text returns for the file of the arguments
InspectedText ==
    convert_hwp_local_to_text(
        IF f_arg.kind = "ole" THEN extract_text_from_hwp_ole(BuildContainer(f_arg.doc))
        ELSE <<None, StatusOpenFailed>>)

\* lines 48-52: the file is read and converted; a file that does not exist
\* raises FileNotFoundError
I_Extract ==
    /\ call = "hwp_inspector" /\ f_pc = "start"
    /\ IF f_arg.kind = "missing"
       THEN /\ f_pc' = "raised"
            /\ f_ret' = [f_ret EXCEPT !.printed = Append(@, "file not found")]
       ELSE LET r == InspectedText
            IN  IF r[1].none \/ r[1].text = <<>>
                THEN /\ f_pc' = "done"
                     /\ f_ret' = [f_ret EXCEPT !.status = r[2], !.code = 1,
                                               !.printed = Append(@, "extraction failed")]
                ELSE /\ f_pc' = "stats"
                     /\ f_ret' = [f_ret EXCEPT !.text = r[1].text, !.status = r[2]]
    /\ UNCHANGED <<base_vars, not_f, f_arg>>

\* lines 54-57
I_Stats ==
    /\ call = "hwp_inspector" /\ f_pc = "stats"
    /\ f_ret' = [f_ret EXCEPT !.stats =
                    collect_text_statistics(Some(f_ret.text),
                                            [none |-> FALSE, list |-> f_arg.keywords])]
    /\ f_pc' = "output"
    /\ UNCHANGED <<base_vars, not_f, f_arg>>

\* lines 59-61: the text is written when --output was given; a path that
\* cannot be written raises OSError
I_Output ==
    /\ call = "hwp_inspector" /\ f_pc = "output"
    /\ IF f_arg.output = "unwritable"
       THEN f_pc' = "raised" /\ UNCHANGED f_ret
       ELSE /\ f_pc' = "print"
            /\ f_ret' = IF f_arg.output = "writable"
                        THEN [f_ret EXCEPT !.written = Some(f_ret.text)]
                        ELSE f_ret
    /\ UNCHANGED <<base_vars, not_f, f_arg>>

\* lines 63-74
I_Print ==
    /\ call = "hwp_inspector" /\ f_pc = "print"
    /\ f_ret' = [f_ret EXCEPT !.printed =
                    Append(@, IF f_arg.json THEN "statistics as JSON" ELSE "statistics")]
    /\ f_pc' = "return"
    /\ UNCHANGED <<base_vars, not_f, f_arg>>

\* lines 76-79
I_Return ==
    /\ call = "hwp_inspector" /\ f_pc = "return"
    /\ f_ret' = [f_ret EXCEPT !.code = ExitCode(f_arg.fail_missing, f_ret.stats.missing_keywords)]
    /\ f_pc' = "done"
    /\ UNCHANGED <<base_vars, not_f, f_arg>>

InitInspector ==
    /\ call = "hwp_inspector"
    /\ \E kind \in {"missing", "not_ole", "ole"} :
          f_arg \in [kind : {kind},
                     doc : IF kind = "ole" THEN DispatchDocs ELSE {NoDoc},
                     keywords : SeqsUpTo({<<>>, W_hello, <<120, 121, 122>>}, MaxKeywords)
                                    \cup {DEFAULT_KEYWORDS},
                     output : {"none", "writable", "unwritable"},
                     json : BOOLEAN,
                     fail_missing : BOOLEAN]
    /\ f_pc = "start"
    /\ f_ret = [text |-> <<>>, status |-> "", stats |-> collect_text_statistics(None, [none |-> TRUE, list |-> <<>>]),
                written |-> None, printed |-> <<>>, code |-> -1]
    /\ k_files = <<>> /\ ComboStart /\ runs = <<>>
    /\ BaseIdle

NextInspector == I_Extract \/ I_Stats \/ I_Output \/ I_Print \/ I_Return

SpecInspector == InitInspector /\ [][NextInspector]_vars

(***************************************************************************)
(* Claims about the inspector and the statistics                           *)
(***************************************************************************)
\* C18: main returns 1 exactly when the extraction gives no text, and then
\* it has written no output file and printed no statistics; it returns 2
\* exactly when the extraction gave text, --fail-missing was given and a
\* required keyword does not occur in the text; otherwise it returns 0.
C18_ExitStatus ==
    (call = "hwp_inspector" /\ f_pc = "done") =>
        LET no_text == InspectedText[1].none
            lacking == \E i \in 1..Len(f_arg.keywords) :
                          /\ f_arg.keywords[i] # <<>>
                          /\ ~Contains(InspectedText[1].text, f_arg.keywords[i])
        IN  /\ f_ret.code = 1 <=> no_text
            /\ f_ret.code = 1 => (f_ret.written = None
                                  /\ \A i \in 1..Len(f_ret.printed) :
                                        f_ret.printed[i] = "extraction failed")
            /\ f_ret.code = 2 <=> (~no_text /\ f_arg.fail_missing /\ lacking)
            /\ f_ret.code = 0 <=> (~no_text /\ ~(f_arg.fail_missing /\ lacking))

\* main has returned 2 for a text that holds one required keyword and lacks
\* another, after writing the output file
C18_Witness ==
    /\ call = "hwp_inspector" /\ f_pc = "done" /\ f_ret.code = 2
    /\ f_ret.stats.found_keywords # <<>> /\ f_ret.written # None

\* how often x occurs in the sequence s
Count(s, x) == Cardinality({i \in 1..Len(s) : s[i] = x})

\* C19: every keyword that is not empty is in exactly one of found_keywords
\* (it occurs in the stripped text) and missing_keywords (it does not), each
\* list in the order of the input; contains_korean is true exactly when
\* korean_characters is greater than 0; a None text is treated as the empty
\* text.
C19_KeywordPartition ==
    (call = "collect_text_statistics" /\ f_pc = "done") =>
        LET kws == IF f_arg.keywords.none THEN <<>> ELSE f_arg.keywords.list
            text == Strip(IF f_arg.text.none THEN <<>> ELSE f_arg.text.text)
            found == f_ret.found_keywords
            missing == f_ret.missing_keywords
        IN  /\ \A i \in 1..Len(kws) :
                  kws[i] # <<>> =>
                      /\ Count(found, kws[i]) + Count(missing, kws[i]) = Count(kws, kws[i])
                      /\ Contains(text, kws[i]) => Count(missing, kws[i]) = 0
                      /\ ~Contains(text, kws[i]) => Count(found, kws[i]) = 0
            /\ Range(found) \cup Range(missing) \subseteq Range(kws) \ {<<>>}
            /\ found = SelectSeq(kws, LAMBDA kw : kw \in Range(found))
            /\ missing = SelectSeq(kws, LAMBDA kw : kw \in Range(missing))
            /\ f_ret.contains_korean <=> f_ret.korean_characters > 0
            /\ f_arg.text.none => f_ret = collect_text_statistics(Some(<<>>), f_arg.keywords)

\* a call with an empty keyword, a keyword found and a keyword missing, on a
\* text with Hangul
C19_Witness ==
    /\ call = "collect_text_statistics" /\ f_pc = "done"
    /\ f_ret.found_keywords # <<>> /\ f_ret.missing_keywords # <<>>
    /\ <<>> \in Range(f_arg.keywords.list) /\ f_ret.contains_korean

(***************************************************************************)
(* app.py: the Gemini API key                                              *)
(*                                                                         *)
(* The key can be configured in three places: st.secrets, the session      *)
(* state (written by the sidebar's "apply key" button) and the process     *)
(* environment.  st.secrets and the environment do not change while the    *)
(* script runs; the script is run again on every interaction and the       *)
(* session state is kept from one run to the next.                         *)
(***************************************************************************)
\* "AIza", the prefix line 558 asks of a key typed into the sidebar
S_AIza == <<65, 73, 122, 97>>

K_secret == S_AIza \o <<49>>
K_sidebar == S_AIza \o <<50>>
K_environ == S_AIza \o <<51>>

\* bool(x) of a str or None
Truthy(v) == ~v.none /\ v.text # <<>>

\* a or b
Or(a, b) == IF Truthy(a) THEN a ELSE b

\* lines 91-98
_get_gemini_key_from_secrets ==
    IF Truthy(secrets_key) /\ Strip(secrets_key.text) # <<>>
    THEN Some(Strip(secrets_key.text))
    ELSE None

\* lines 105-111, with the session state `session`
_get_gemini_key(session) ==
    LET key == Or(session, Or(_get_gemini_key_from_secrets, environ_key))
    IN  IF Truthy(key) THEN Some(Strip(key.text)) ELSE None

\* what the user can have typed into the sidebar's text input
KeyInputs ==
    {<<>>, <<32>>, K_sidebar, <<32>> \o K_sidebar \o <<32>>, K_secret, <<97, 98, 99>>}

\* render_sidebar_base, lines 549-567: the text input, the button, and the
\* availability notice, which looks the key up
G_Sidebar ==
    /\ call = "gemini_key"
    /\ \E key_in \in KeyInputs, clicked \in BOOLEAN :
          /\ session_key' = IF clicked /\ key_in # <<>> /\ StartsWith(Strip(key_in), S_AIza)
                            THEN Some(Strip(key_in))
                            ELSE session_key
          /\ g_key' = _get_gemini_key(session_key')
    /\ g_pc' = "sidebar"
    /\ UNCHANGED <<base_vars, not_g, secrets_key, environ_key>>

\* call_gemini, lines 140-143: the key an API call is made with; without a
\* key the call raises
G_Call ==
    /\ call = "gemini_key"
    /\ g_pc # "idle"
    /\ g_key' = _get_gemini_key(session_key)
    /\ g_pc' = IF Truthy(g_key') THEN "called" ELSE "raised"
    /\ UNCHANGED <<base_vars, not_g, secrets_key, session_key, environ_key>>

InitKey ==
    /\ call = "gemini_key"
    /\ secrets_key \in {None, Some(<<>>), Some(<<32>>), Some(K_secret),
                        Some(<<32>> \o K_secret)}
    /\ environ_key \in {None, Some(<<>>), Some(<<32>>), Some(K_environ)}
    /\ session_key = None
    /\ g_pc = "idle" /\ g_key = None
    /\ k_files = <<>> /\ ComboStart /\ runs = <<>> /\ NoCall
    /\ ReadersIdle

NextKey == G_Sidebar \/ G_Call

SpecKey == InitKey /\ [][NextKey]_vars

\* C20: when st.secrets holds a key and a different key has been applied from
\* the sidebar, an API call is made with the st.secrets key; and an API call
\* is made with the environment's key only when neither of the two is set
C20_AsClaimed ==
    g_pc = "called" =>
        /\ (/\ _get_gemini_key_from_secrets # None
            /\ Truthy(session_key)
            /\ session_key # _get_gemini_key_from_secrets)
              => g_key = _get_gemini_key_from_secrets
        /\ (Truthy(environ_key) /\ g_key = Some(Strip(environ_key.text)))
              => (~Truthy(session_key) /\ _get_gemini_key_from_secrets = None)

\* C20, second half alone: the environment's key is used only when neither
\* st.secrets nor the session holds one
EnvironLast ==
    (g_pc = "called" /\ Truthy(environ_key) /\ g_key = Some(Strip(environ_key.text)))
        => (~Truthy(session_key) /\ _get_gemini_key_from_secrets = None)

(***************************************************************************)
(* The record walkers, one loop iteration at a time                        *)
(*                                                                         *)
(* hwp_parser._parse_body_records (lines 65-84), hwp_utils.                *)
(* _parse_hwp_records (lines 15-31) and the loop of reference_replit1.py   *)
(* (lines 63-84), called on a buffer of their own.  What an iteration does *)
(* with the payload it took (decoding, filtering) is ParseBodyLoop and     *)
(* ParseHwpLoop above; here the state is the offset and the records taken. *)
(***************************************************************************)
MaxWalk == 3        \* records written to a buffer
MaxWalkCut == 5     \* bytes missing at the end of a buffer

LibraryWalkers == {"_parse_body_records", "_parse_hwp_records"}
Walkers == LibraryWalkers \cup {"reference_replit1"}

\* the loop test fails: the loop is left, no iteration starts
Exit(offset) ==
    [iterated |-> FALSE, offset |-> offset, records |-> <<>>, read_end |-> 0]

\* an iteration that ends in `break`, the offset being where it had got to
Break(offset, read_end) ==
    [iterated |-> TRUE, offset |-> offset, records |-> <<>>, read_end |-> read_end]

\* an iteration that takes the payload data[start : start + size] of the
\* record whose header is at `at`
Take(at, tag_id, start, size) ==
    [iterated |-> TRUE, offset |-> start + size,
     records |-> <<[at |-> at, tag |-> tag_id, start |-> start, size |-> size]>>,
     read_end |-> start + size]

\* hwp_parser.py lines 65-81, with no test of the payload's end (line 77)
BodyStep_unchecked(data, offset) ==
    LET extended == HeaderSize(data, offset) = 4095
    IN  IF offset + 4 > Len(data) THEN Exit(offset)
        ELSE IF extended /\ offset + 8 > Len(data) THEN Break(offset + 4, offset + 4)
        ELSE IF extended
        THEN Take(offset, HeaderTag(data, offset), offset + 8, U32(data, offset + 4))
        ELSE Take(offset, HeaderTag(data, offset), offset + 4, HeaderSize(data, offset))

\* hwp_parser.py lines 65-81: one pass of `while offset + 4 <= length`
BodyStep(data, offset) ==
    LET extended == HeaderSize(data, offset) = 4095
        start == IF extended THEN offset + 8 ELSE offset + 4
        size == IF extended THEN U32(data, offset + 4) ELSE HeaderSize(data, offset)
    IN  IF offset + 4 > Len(data) THEN Exit(offset)
        ELSE IF extended /\ offset + 8 > Len(data) THEN Break(offset + 4, offset + 4)
        ELSE IF start + size > Len(data) \/ size < 0 THEN Break(start, start)
        ELSE Take(offset, HeaderTag(data, offset), start, size)

\* hwp_utils.py lines 15-31: one pass of `while offset + 4 <= length`
HwpStep(data, offset) ==
    LET extended == HeaderSize(data, offset) = 4095
        start == IF extended THEN offset + 8 ELSE offset + 4
        size == IF extended THEN U32(data, offset + 4) ELSE HeaderSize(data, offset)
    IN  IF offset + 4 > Len(data) THEN Exit(offset)
        ELSE IF extended /\ offset + 8 > Len(data) THEN Break(offset + 4, offset + 4)
        ELSE IF size <= 0 \/ start + size > Len(data) THEN Break(start, start)
        ELSE Take(offset, HeaderTag(data, offset), start, size)

\* reference_replit1.py lines 63-84: one pass of
\* `while offset < len(decompressed) - 4`; the size is the header's 12 bits
ReplitStep(data, offset) ==
    IF ~(offset < Len(data) - 4) THEN Exit(offset)
    ELSE IF offset + 4 + HeaderSize(data, offset) > Len(data)
    THEN Break(offset + 4, offset + 4)
    ELSE Take(offset, HeaderTag(data, offset), offset + 4, HeaderSize(data, offset))

WalkStep(walker, data, offset) ==
    IF walker = "_parse_body_records" THEN BodyStep(data, offset)
    ELSE IF walker = "_parse_hwp_records" THEN HwpStep(data, offset)
    ELSE ReplitStep(data, offset)

\* the locals before the loop: offset = 0
W_Start ==
    /\ call \in Walkers /\ w_pc = "start"
    /\ w_pc' = "loop"
    /\ UNCHANGED <<base_vars, not_w, w_data, w_written, w_offset, w_tops, w_emitted, w_read_end>>

\* what the loop test and the pass it lets in do to the locals
W_Pass(r) ==
    /\ w_offset' = r.offset
    /\ w_emitted' = w_emitted \o r.records
    /\ w_tops' = IF r.iterated THEN Append(w_tops, w_offset) ELSE w_tops
    /\ w_read_end' = IF r.read_end > w_read_end THEN r.read_end ELSE w_read_end
    /\ w_pc' = IF r.records = <<>> THEN "done" ELSE "loop"

W_Step ==
    /\ call \in Walkers /\ w_pc = "loop"
    /\ W_Pass(WalkStep(call, w_data, w_offset))
    /\ UNCHANGED <<base_vars, not_w, w_data, w_written>>

\* A record as a producer writes it: the header (tag in bits 0-9, level 0,
\* the size in bits 20-31), for a record written in the extended form the
\* size field 0xFFF and the size in four more bytes, then the payload.  A
\* record with declared = "huge" declares 2^32 - 1 bytes.
EncodeWritten(r) ==
    LET field == IF r.extended THEN 4095 ELSE Len(r.payload)
    IN  <<r.tag % 256, r.tag \div 256, (field % 16) * 16, field \div 16>>
            \o (IF ~r.extended THEN <<>>
                ELSE IF r.declared = "huge" THEN <<255, 255, 255, 255>>
                ELSE U32Bytes(Len(r.payload)))
            \o r.payload

RECURSIVE EncodeAllWritten(_)
EncodeAllWritten(rs) ==
    IF rs = <<>> THEN <<>> ELSE EncodeWritten(Head(rs)) \o EncodeAllWritten(Tail(rs))

WrittenBuffer(w) ==
    LET all == EncodeAllWritten(w.records)
    IN  SubSeq(all, 1, IF w.cut > Len(all) THEN 0 ELSE Len(all) - w.cut)

WalkPool ==
    {[tag |-> 67, extended |-> FALSE, declared |-> "exact", payload |-> Utf16Encode(T_hi)],
     [tag |-> 67, extended |-> FALSE, declared |-> "exact", payload |-> <<>>],
     [tag |-> 16, extended |-> FALSE, declared |-> "exact", payload |-> <<1, 0>>],
     [tag |-> 67, extended |-> TRUE, declared |-> "exact", payload |-> Utf16Encode(T_hi)],
     [tag |-> 67, extended |-> TRUE, declared |-> "exact", payload |-> <<>>],
     [tag |-> 67, extended |-> TRUE, declared |-> "huge", payload |-> <<>>]}

\* one record in the extended form whose size bytes and payload are together
\* as long as the header's size field says, 0xFFF
LongRecord ==
    [tag |-> 67, extended |-> TRUE, declared |-> "exact", payload |-> [i \in 1..4091 |-> 0]]

InitWalk ==
    /\ call \in Walkers
    /\ w_written \in [records : SeqsUpTo(WalkPool, MaxWalk), cut : 0..MaxWalkCut]
                        \cup {[records |-> <<LongRecord>>, cut |-> 0]}
    /\ w_data = WrittenBuffer(w_written)
    /\ w_pc = "start" /\ w_offset = 0 /\ w_tops = <<>> /\ w_emitted = <<>> /\ w_read_end = 0
    /\ DocumentsIdle /\ OthersIdle

NextWalk == W_Start \/ W_Step

SpecWalk == InitWalk /\ [][NextWalk]_vars

\* a started loop goes on until it is left
SpecWalkLive == InitWalk /\ [][NextWalk]_vars /\ WF_vars(NextWalk)

(***************************************************************************)
(* Claims about the record walkers                                         *)
(***************************************************************************)
\* every record was written whole and declares the size it has
WellFormedBuffer ==
    /\ w_written.cut = 0
    /\ \A i \in 1..Len(w_written.records) : w_written.records[i].declared = "exact"

\* tag and payload bytes of the records the loop took, in order
TakenRecords ==
    [i \in 1..Len(w_emitted) |->
        [tag |-> w_emitted[i].tag,
         payload |-> SubSeq(w_data, w_emitted[i].start + 1,
                            w_emitted[i].start + w_emitted[i].size)]]

WrittenRecords ==
    [i \in 1..Len(w_written.records) |->
        [tag |-> w_written.records[i].tag, payload |-> w_written.records[i].payload]]

\* C21: on a buffer that is a concatenation of well-formed records the walker
\* (hwp_parser's and hwp_utils') consumes the whole buffer and takes every
\* record in order, records of size zero included
C21_AsClaimed ==
    (call \in LibraryWalkers /\ w_pc = "done" /\ WellFormedBuffer)
        => (w_offset = Len(w_data) /\ TakenRecords = WrittenRecords)

\* C21 for hwp_parser's walker alone
WholeBufferWalked ==
    (call = "_parse_body_records" /\ w_pc = "done" /\ WellFormedBuffer)
        => (w_offset = Len(w_data) /\ TakenRecords = WrittenRecords)

\* the header rule for the walkers named: the tag is the header's low ten
\* bits; with a size field of 0xFFF the size is the next four bytes and the
\* payload starts after them, otherwise the size is the field and the payload
\* starts after the header; a record is taken only when its payload lies in
\* the buffer, so none is taken when fewer than four bytes are left for the
\* extended size
HeaderRule(walkers) ==
    call \in walkers =>
        \A i \in 1..Len(w_emitted) :
            LET e == w_emitted[i]
            IN  /\ e.tag = HeaderTag(w_data, e.at)
                /\ IF HeaderSize(w_data, e.at) = 4095
                   THEN /\ e.at + 8 <= Len(w_data)
                        /\ e.start = e.at + 8
                        /\ e.size = U32(w_data, e.at + 4)
                   ELSE /\ e.start = e.at + 4
                        /\ e.size = HeaderSize(w_data, e.at)
                /\ e.start + e.size <= Len(w_data)

\* C22: each of the three record loops reads tag and size from the header
\* and follows the extended-size escape
C22_AsClaimed == HeaderRule(Walkers)

\* C22 for the walkers of hwp_parser and hwp_utils
LibraryHeaderRule == HeaderRule(LibraryWalkers)

\* every pass moved the offset on by four or more, the offset is within the
\* buffer and nothing was read beyond its end
WalkBounded ==
    /\ \A i \in 1..(Len(w_tops) - 1) : w_tops[i + 1] >= w_tops[i] + 4
    /\ w_tops # <<>> => w_offset >= w_tops[Len(w_tops)] + 4
    /\ w_offset <= Len(w_data)
    /\ w_read_end <= Len(w_data)

\* C26: on every buffer the walker of hwp_parser and that of hwp_utils
\* terminate, every pass of the loop having increased the offset by at least
\* 4, with the offset never beyond the buffer's length and no read past its
\* end, also for an extended size of 2^32 - 1
C26_WalkTerminates ==
    /\ [](call \in LibraryWalkers => WalkBounded)
    /\ (call \in LibraryWalkers) ~> (w_pc = "done")

\* a walk that met a record declaring 2^32 - 1 bytes after taking another
C26_Witness ==
    /\ call \in LibraryWalkers /\ w_pc = "done"
    /\ Len(w_tops) >= 2 /\ Len(w_emitted) >= 1
    /\ \E i \in 1..Len(w_written.records) : w_written.records[i].declared = "huge"
    /\ w_offset < Len(w_data)

(***************************************************************************)
(* Claims about the header flag                                            *)
(***************************************************************************)
\* the bytes of the FileHeader stream the producer wrote, none when it wrote
\* no such stream
WrittenHeader == IF doc.header = "absent" THEN <<>> ELSE HeaderStream(doc.header)

\* C23: the flag is true exactly when the FileHeader stream is present, has
\* 37 bytes or more and bit 0 of its byte at offset 36 is 1; without the
\* stream, or with a shorter one, the flag is false, nothing is raised and
\* every body section is still walked
C23_FlagFromHeader ==
    (call = "hwp_parser" /\ p_pc # "start")
        => /\ p_compressed = (/\ doc.header # "absent"
                              /\ Len(WrittenHeader) >= 37
                              /\ (WrittenHeader[37] % 2) = 1)
           /\ p_pc \in {"sections", "done"}
           /\ Len(p_streams) = Len(doc.sections)
           /\ p_pc = "done" => Len(p_walked) = Len(doc.sections)

\* a document without a usable header whose sections gave text
C23_Witness ==
    /\ call = "hwp_parser" /\ p_pc = "done"
    /\ doc.header \in {"absent", "short"}
    /\ Len(doc.sections) >= 2 /\ Len(p_parts) = Len(doc.sections)

(***************************************************************************)
(* hwp_parser._list_body_sections called on a listing of its own           *)
(***************************************************************************)
MaxListing == 3     \* entries of a listing

\* the names of a listing's entries below BodyText, and other paths
SectionNames ==
    {S_Section \o <<48>>,              \* "Section0"
     S_Section \o <<49>>,              \* "Section1"
     S_Section \o <<48, 49>>,          \* "Section01"
     S_Section \o <<45, 49>>,          \* "Section-1"
     S_Section \o <<88>>,              \* "SectionX"
     S_Section,                        \* "Section"
     S_Section \o S_Section \o <<49>>} \* "SectionSection1"

ListingPool ==
    {<<S_BodyText, n>> : n \in SectionNames}
        \cup {<<S_FileHeader>>, <<S_DocInfo, S_Section \o <<48>>>>,
              <<S_BodyText, S_Section \o <<48>>, S_DocInfo>>}

\* ole.listdir() lists every stream once
Listings ==
    {l \in SeqsUpTo(ListingPool, MaxListing) : \A i, j \in 1..Len(l) : i # j => l[i] # l[j]}

ListSections ==
    /\ call = "_list_body_sections" /\ f_pc = "start"
    /\ f_ret' = _list_body_sections(f_arg)
    /\ f_pc' = "done"
    /\ UNCHANGED <<base_vars, not_f, f_arg>>

InitSections ==
    /\ call = "_list_body_sections"
    /\ f_arg \in Listings
    /\ f_pc = "start" /\ f_ret = <<>>
    /\ k_files = <<>> /\ ComboStart /\ runs = <<>>
    /\ BaseIdle

NextSections == ListSections

SpecSections == InitSections /\ [][NextSections]_vars

\* the path is BodyText/SectionN, N written in decimal digits
IsBodySection(path) ==
    /\ Len(path) = 2 /\ path[1] = S_BodyText
    /\ StartsWith(path[2], S_Section)
    /\ Len(path[2]) > Len(S_Section)
    /\ \A i \in (Len(S_Section) + 1)..Len(path[2]) : IsDigit(path[2][i])

\* "A/B" for the path <<A, B>>
PathName(path) == Join(path, <<47>>)

ListedSections == SelectSeq(f_arg, IsBodySection)

\* C24: the enumerator returns only names BodyText/SectionN, N a non-negative
\* decimal integer, and an entry with a malformed suffix, another depth or
\* another parent puts nothing in the result
C24_AsClaimed ==
    (call = "_list_body_sections" /\ f_pc = "done")
        => /\ \A i \in 1..Len(f_ret) : IsBodySection(SplitOn(f_ret[i], 47))
           /\ Len(f_ret) = Len(ListedSections)

\* C27, for a listing whose entries below BodyText are all named SectionN:
\* every name returned is the path of a listed stream, and every listed
\* BodyText/SectionN is returned exactly once
C27_AsClaimed ==
    (/\ call = "_list_body_sections" /\ f_pc = "done"
     /\ \A i \in 1..Len(f_arg) : f_arg[i][1] = S_BodyText => IsBodySection(f_arg[i]))
        => /\ \A i \in 1..Len(f_ret) : \E j \in 1..Len(f_arg) : f_ret[i] = PathName(f_arg[j])
           /\ \A j \in 1..Len(f_arg) :
                 IsBodySection(f_arg[j])
                    => Cardinality({i \in 1..Len(f_ret) : f_ret[i] = PathName(f_arg[j])}) = 1

(***************************************************************************)
(* Claims about the orchestrator's loop over the uploaded files            *)
(***************************************************************************)
\* the file goes to the conversion service (line 796)
IsBinary(f) == Lower(splitext(f.name)[2]) \in BINARY_EXTS

\* the sections of the combined text made from a converted PDF (line 803)
ConvertedSections == {i \in 1..Len(k_texts) : Contains(k_texts[i], S_via_pdf)}

\* the loop takes the pair the service client returned for the current file
Handed == cc_pc = "returned" /\ cc_pc' = "idle"

\* C25: the files are handled in order with exactly one log entry each, a
\* failed conversion does not keep the later files from being handled,
\* generated_pdfs holds exactly the binary files whose conversion returned
\* PDF bytes, and a binary file gets a section only in that case
C25_OneLogPerFile ==
    /\ [](call = "combo_2step"
            => /\ Len(k_logs) = k_i /\ k_i <= Len(k_files)
               /\ \A i \in 1..Len(k_logs) : k_logs[i].name = k_files[i].name
               /\ k_pc = "done" => k_i = Len(k_files)
               /\ Len(k_pdfs) = Cardinality(ConvertedSections)
               /\ Len(k_pdfs)
                     = Cardinality({i \in 1..Len(k_logs) :
                                       IsBinary(k_files[i]) /\ k_logs[i].mark = "ok"}))
    /\ [][call = "combo_2step"
            => LET got == Handed /\ cc_result.bytes = "pdf"
                   f == k_files[k_i + 1]
               IN  /\ k_pdfs' = IF got
                                THEN Append(k_pdfs, <<splitext(f.name)[1] \o <<46, 112, 100, 102>>,
                                                      "pdf">>)
                                ELSE k_pdfs
                   /\ Handed => /\ IsBinary(f)
                                /\ Len(k_texts') = Len(k_texts) + (IF got THEN 1 ELSE 0)
                   /\ (k_i' # k_i) => (k_i' = k_i + 1 /\ Len(k_logs') = Len(k_logs) + 1)]_vars

\* two binary files: the conversion of the first failed, the second was
\* converted and has its PDF and its section
C25_Witness ==
    /\ call = "combo_2step" /\ k_pc = "done"
    /\ Len(k_files) = 2 /\ IsBinary(k_files[1]) /\ IsBinary(k_files[2])
    /\ k_logs[1].mark = "stop" /\ k_logs[2].mark = "ok"
    /\ Len(k_pdfs) = 1 /\ Len(k_texts) = 1

\* "[PDF 추출 실패]", the head of what extract_text_from_pdf_bytes returns when
\* the extraction failed (lines 285 and 289)
S_pdf_failed == <<91, 80, 68, 70, 32, 52628, 52636, 32, 49892, 54056, 93>>

\* C28: a file is logged as a success and its text joins the combined text
\* only when text was extracted from it: the message of a failed extraction
\* is in no section of the combined text
C28_AsClaimed ==
    call = "combo_2step"
        => \A i \in 1..Len(k_texts) : ~Contains(k_texts[i], S_pdf_failed)

(***************************************************************************)
(* app.py: the message list of a chat turned into the contents of a        *)
(* Gemini request.  A message is [role, content]; the role "absent" is a   *)
(* message without the key "role".                                         *)
(***************************************************************************)
MaxMessages == 3    \* messages handed to call_gemini

S_SYSTEM == <<91, 83, 89, 83, 84, 69, 77, 93, 10>>     \* "[SYSTEM]\n"

\* line 114
sys_texts(messages) ==
    LET kept == SelectSeq(messages, LAMBDA m : m.role = "system")
    IN  [i \in 1..Len(kept) |-> kept[i].content]

\* line 115
user_assist(messages) == SelectSeq(messages, LAMBDA m : m.role # "system")

\* lines 118-120
sys_prefix(messages) ==
    IF sys_texts(messages) = <<>> THEN <<>>
    ELSE S_SYSTEM \o Strip(Join(sys_texts(messages), <<10, 10>>)) \o <<10, 10>>

\* lines 123, 126: m.get("role", "user"), then "user" or "model"
gem_role(m) == IF m.role \in {"user", "absent"} THEN "user" ELSE "model"

\* lines 122-134: the loop over the messages that are not system messages
RECURSIVE ContentsLoop(_, _, _)
ContentsLoop(rest, prefix, contents) ==
    IF rest = <<>> THEN contents
    ELSE LET m == Head(rest)
             txt == _redact_secrets(m.content)
             first == contents = <<>> /\ gem_role(m) = "user" /\ prefix # <<>>
         IN  ContentsLoop(Tail(rest), prefix,
                          Append(contents, [role |-> gem_role(m),
                                            text |-> IF first THEN prefix \o txt ELSE txt]))

\* lines 113-138
_gemini_messages_to_contents(messages) ==
    LET prefix == sys_prefix(messages)
        contents == ContentsLoop(user_assist(messages), prefix, <<>>)
    IN  IF contents = <<>> /\ prefix # <<>>
        THEN <<[role |-> "user", text |-> prefix]>>
        ELSE contents

\* lines 145-153 (a stand-in for the source's guardrail text)
guardrail_system ==
    [role |-> "system", content |-> <<103, 117, 97, 114, 100, 114, 97, 105, 108>>]   \* "guardrail"

\* line 155
safe_messages(messages) == <<guardrail_system>> \o messages

\* the messages of a chat: a system prompt, questions, answers
MessagePool ==
    {[role |-> "system", content |-> <<114, 117, 108, 101, 115>>]}               \* "rules"
        \cup [role : {"user", "assistant", "absent"},
              content : {<<104, 105>>, <<111, 107, 32>>}]                        \* "hi", "ok "

\* lines 155-156 of call_gemini, a key being set
GeminiContents ==
    /\ call = "call_gemini" /\ f_pc = "start"
    /\ f_ret' = _gemini_messages_to_contents(safe_messages(f_arg))
    /\ f_pc' = "done"
    /\ UNCHANGED <<base_vars, not_f, f_arg>>

InitGemini ==
    /\ call = "call_gemini"
    /\ f_arg \in SeqsUpTo(MessagePool, MaxMessages)
    /\ f_pc = "start" /\ f_ret = <<>>
    /\ k_files = <<>> /\ ComboStart /\ runs = <<>>
    /\ BaseIdle

NextGemini == GeminiContents

SpecGemini == InitGemini /\ [][NextGemini]_vars

\* the joined system text of the messages the contents were built from
JoinedSystemText == Strip(Join(sys_texts(safe_messages(f_arg)), <<10, 10>>))

\* C29: the contents built from a list with a system message hold the joined
\* system text exactly once, in the first entry, whatever the roles and the
\* order of the other messages
C29_AsClaimed ==
    (call = "call_gemini" /\ f_pc = "done")
        => /\ f_ret # <<>>
           /\ Contains(f_ret[1].text, JoinedSystemText)
           /\ \A i \in 2..Len(f_ret) : ~Contains(f_ret[i].text, JoinedSystemText)

\* a chat that opens with a question, or has no message yet, carries the
\* system text in its first entry and nowhere else
SystemTextWithQuestionFirst ==
    (/\ call = "call_gemini" /\ f_pc = "done"
     /\ user_assist(f_arg) # <<>> => gem_role(user_assist(f_arg)[1]) = "user")
        => /\ f_ret # <<>>
           /\ Contains(f_ret[1].text, JoinedSystemText)
           /\ \A i \in 2..Len(f_ret) : ~Contains(f_ret[i].text, JoinedSystemText)

(***************************************************************************)
(* Normalizing a normalized text                                           *)
(***************************************************************************)
\* C30: normalization is idempotent: _clean_text applied to what _clean_text
\* returned gives the same text again
C30_Idempotent ==
    (call = "_clean_text" /\ f_pc = "done") => _clean_text(f_ret) = f_ret

\* an argument the normalizer changed into a text of two words
C30_Witness ==
    /\ call = "_clean_text" /\ f_pc = "done"
    /\ f_ret # f_arg /\ f_ret = <<97, 32, 97>>

=============================================================================
